---------------------------- MODULE Spec2Model ----------------------------
(***************************************************************************)
(* Nexus Terminal: turn orchestration, tool execution and state synthesis  *)
(* of App.tsx, modelled as a state machine.                                *)
(*                                                                         *)
(* The store is the React state of the App component (messages,            *)
(* nodeState, the per-agent records, isSynthesizing) and the ref           *)
(* lastSynthesizedContentRef.  An async handler is a process: the values   *)
(* its closure captured when it was invoked (messages, nodeState, the      *)
(* local currentSequenceHistory, executionQueue and loop position) are     *)
(* the fields of its record, and it is suspended exactly at its await of   *)
(* the completion call.  A state update setX(v) replaces the store value,  *)
(* a functional update setX(prev => f(prev)) applies f to the store value  *)
(* of the moment.                                                          *)
(*                                                                         *)
(* A text is modelled by the sequence of its lines, text.split('\n'): a    *)
(* bijection between strings and non-empty sequences of newline-free       *)
(* strings.  The empty string is <<"">>.  The empty sequence is the image  *)
(* of no string and stands for the JavaScript value undefined.             *)
(***************************************************************************)
EXTENDS Integers, Sequences, FiniteSets, TLC

\* ------------------------------------------------------------------ bounds
\* user sends in a session; each invocation of handleSendMessage has its own closure
MaxSends == 1
\* tool calls the agent responses of a session carry in total
MaxToolCalls == 2
\* operator interventions in a session: context board edits, mute and priority
\* clicks, EXECUTE SYNC clicks
MaxOps == 1
\* artifact edits the operator types into the context board in a session
MaxEdits == 4
\* lines of the artifacts the longest-common-subsequence computation is run on
MaxLines == 3

\* ------------------------------------------------------------------ values
EmptyText == <<"">>
Undefined == <<>>
TextX == <<"X">>
TextY == <<"Y">>
InitialFileName == <<"nexus.ts">>

\* values a model response or an operator supplies for a field
ArgValues == {TextX, TextY}

ARCHITECT == "ARCHITECT"
ENGINEER == "ENGINEER"
CRITIC == "CRITIC"
USER == "USER"
AgentRole == {ARCHITECT, ENGINEER, CRITIC, USER}

HIGH == "HIGH"
NORMAL == "NORMAL"
LOW == "LOW"
AgentPriority == {HIGH, NORMAL, LOW}

\* the keys of ContextNodeState
StateFields == {"objective", "scratchpad", "activeFile", "activeFileName"}
\* the properties of the update_nexus_state declaration
ArgNames == {"objective", "scratchpad", "activeFileName", "activeFileContent"}

UpdateNexusState == "update_nexus_state"
GetActiveFile == "get_active_file"
\* a tool name the application does not declare
OtherTool == "run_shell"

INITIAL_NODE_STATE ==
  [objective |-> EmptyText, scratchpad |-> EmptyText,
   activeFile |-> EmptyText, activeFileName |-> InitialFileName]

getPriorityValue(p) ==
  CASE p = HIGH -> 3
    [] p = NORMAL -> 2
    [] p = LOW -> 1
    [] OTHER -> 0

\* JavaScript truthiness of a string-or-undefined value
Truthy(v) == v # Undefined /\ v # EmptyText

\* object spread { ...prev, ...upd }
Spread(prev, upd) ==
  [k \in (DOMAIN prev) \cup (DOMAIN upd) |->
     IF k \in DOMAIN upd THEN upd[k] ELSE prev[k]]

EmptyObject == [k \in {} |-> Undefined]


\* ------------------------------------------------------- execution queue
\* the roles a broadcast considers, in the order handleSendMessage lists them
BroadcastRoles == <<ARCHITECT, ENGINEER, CRITIC>>

\* the comparator with its operands exchanged: an ascending sort
ComparePriorityAscending(a, b, prio) == getPriorityValue(prio[a]) - getPriorityValue(prio[b])

\* the comparator of the sort: negative keeps a before b
ComparePriority(a, b, prio) == getPriorityValue(prio[b]) - getPriorityValue(prio[a])

\* Array.prototype.sort is stable: x goes before the first element it must precede
RECURSIVE InsertSorted(_, _, _)
InsertSorted(sorted, x, prio) ==
  IF sorted = <<>> THEN <<x>>
  ELSE IF ComparePriority(Head(sorted), x, prio) > 0
       THEN <<x>> \o sorted
       ELSE <<Head(sorted)>> \o InsertSorted(Tail(sorted), x, prio)

RECURSIVE SortByPriority(_, _)
SortByPriority(roles, prio) ==
  IF roles = <<>> THEN <<>>
  ELSE InsertSorted(SortByPriority(SubSeq(roles, 1, Len(roles) - 1), prio),
                    roles[Len(roles)], prio)

ExecutionQueue(target, muted, prio) ==
  IF target = "ALL"
  THEN SortByPriority(SelectSeq(BroadcastRoles, LAMBDA r : ~muted[r]), prio)
  ELSE <<target>>

\* ------------------------------------------------------- tool execution
\* string length and line count of a text
RECURSIVE SumLen(_)
SumLen(lines) == IF lines = <<>> THEN 0 ELSE Len(Head(lines)) + SumLen(Tail(lines))
TextLength(t) == SumLen(t) + (Len(t) - 1)
LineCount(t) == Len(t)

\* the read counting the newlines of the artifact instead of its lines
ToolResultCountingNewlines(tool, contextState) ==
  IF tool.name = UpdateNexusState
  THEN [name |-> tool.name, args |-> tool.args, status |-> "success",
        outcome |-> <<"Nexus State Updated">>]
  ELSE IF tool.name = GetActiveFile
  THEN [name |-> tool.name, args |-> tool.args, status |-> "success",
        outcome |-> <<"File", contextState.activeFileName,
                      TextLength(contextState.activeFile),
                      LineCount(contextState.activeFile) - 1>>]
  ELSE [name |-> tool.name, args |-> tool.args, status |-> "failure",
        outcome |-> <<"Unknown Tool">>]

\* a map that hands back a call to an undeclared tool as it was received
ToolResultUnknownLeftPending(tool, contextState) ==
  IF tool.name = UpdateNexusState
  THEN [name |-> tool.name, args |-> tool.args, status |-> "success",
        outcome |-> <<"Nexus State Updated">>]
  ELSE IF tool.name = GetActiveFile
  THEN [name |-> tool.name, args |-> tool.args, status |-> "success",
        outcome |-> <<"File", contextState.activeFileName,
                      TextLength(contextState.activeFile),
                      LineCount(contextState.activeFile)>>]
  ELSE [name |-> tool.name, args |-> tool.args, status |-> tool.status,
        outcome |-> Undefined]

\* one element of response.toolCalls.map(...)
ToolResult(tool, contextState) ==
  IF tool.name = UpdateNexusState
  THEN [name |-> tool.name, args |-> tool.args, status |-> "success",
        outcome |-> <<"Nexus State Updated">>]
  ELSE IF tool.name = GetActiveFile
  THEN [name |-> tool.name, args |-> tool.args, status |-> "success",
        outcome |-> <<"File", contextState.activeFileName,
                      TextLength(contextState.activeFile),
                      LineCount(contextState.activeFile)>>]
  ELSE [name |-> tool.name, args |-> tool.args, status |-> "failure",
        outcome |-> <<"Unknown Tool">>]

ToolResults(calls, contextState) ==
  [i \in 1..Len(calls) |-> ToolResult(calls[i], contextState)]

\* every tool call but the read is taken for an update
RECURSIVE StateUpdatesAnyTool(_)
StateUpdatesAnyTool(calls) ==
  IF calls = <<>> THEN EmptyObject
  ELSE LET last == calls[Len(calls)]
           before == StateUpdatesAnyTool(SubSeq(calls, 1, Len(calls) - 1))
       IN IF last.name # GetActiveFile THEN Spread(before, last.args) ELSE before

\* the spread the other way round, { ...tool.args, ...stateUpdates }: first call wins
RECURSIVE StateUpdatesFirstWins(_)
StateUpdatesFirstWins(calls) ==
  IF calls = <<>> THEN EmptyObject
  ELSE LET last == calls[Len(calls)]
           before == StateUpdatesFirstWins(SubSeq(calls, 1, Len(calls) - 1))
       IN IF last.name = UpdateNexusState THEN Spread(last.args, before) ELSE before

\* stateUpdates after the map: the arguments of the update calls, spread in order
RECURSIVE StateUpdates(_)
StateUpdates(calls) ==
  IF calls = <<>> THEN EmptyObject
  ELSE LET last == calls[Len(calls)]
           before == StateUpdates(SubSeq(calls, 1, Len(calls) - 1))
       IN IF last.name = UpdateNexusState THEN Spread(before, last.args) ELSE before

\* the merge onto the snapshot the turn was called with, setNodeState({ ...contextState, ... })
MergeOntoSnapshot(prev, contextState, calls) ==
  IF DOMAIN StateUpdates(calls) # {} THEN Spread(contextState, StateUpdates(calls)) ELSE prev

\* the store after the turn's setNodeState(prev => ({ ...prev, ...stateUpdates }))
MergeToolUpdates(prev, contextState, calls) ==
  IF DOMAIN StateUpdates(calls) # {} THEN Spread(prev, StateUpdates(calls)) ELSE prev

\* ------------------------------------------------------- change detection
\* the line count above which isSignificantChange does not run the LCS
LineCeiling == 600
\* the line-count difference the heuristic takes for significant
HeuristicThreshold == 5
\* the number of edited lines the exact check takes for significant
EditThreshold == 5
\* the delay of the auto-sync timer, in milliseconds
DebounceDelay == 3000

Max(a, b) == IF a >= b THEN a ELSE b
Abs(n) == IF n < 0 THEN 0 - n ELSE n

\* a row of the LCS table, new Array(n + 1).fill(0): column j is kept at index j + 1
ZeroRow(n) == [j \in 1..(n + 1) |-> 0]

\* the inner loop of calculateLCSLength over the columns lo..hi of row i, left to
\* right: the cells it writes into curr, `left` being curr[lo - 1].  The loop is
\* evaluated half by half, the second half starting from the last cell of the first.
RECURSIVE LCSColumns(_, _, _, _, _, _, _)
LCSColumns(str1, str2, i, lo, hi, prev, left) ==
  IF lo > hi THEN <<>>
  ELSE IF lo = hi
  THEN <<IF str1[i] = str2[lo] THEN prev[lo] + 1 ELSE Max(prev[lo + 1], left)>>
  ELSE LET first == LCSColumns(str1, str2, i, lo, (lo + hi) \div 2, prev, left)
       IN first \o LCSColumns(str1, str2, i, (lo + hi) \div 2 + 1, hi, prev,
                              first[Len(first)])

\* the outer loop from row st.i to row hi, half by half.  A row leaves column 0 of
\* the array it writes as it found it, and [prev, curr] = [curr, prev] makes the
\* written row prev and hands the old prev to the next row to write over.
RECURSIVE LCSRows(_, _, _, _)
LCSRows(str1, str2, st, hi) ==
  IF st.i > hi THEN st
  ELSE IF st.i = hi
  THEN [i |-> st.i + 1,
        prev |-> <<st.curr[1]>>
                   \o LCSColumns(str1, str2, st.i, 1, Len(str2), st.prev, st.curr[1]),
        curr |-> st.prev]
  ELSE LCSRows(str1, str2, LCSRows(str1, str2, st, (st.i + hi) \div 2), hi)

\* the function returning the row it did not write last, curr[n]
calculateLCSLengthStaleRow(str1, str2) ==
  LCSRows(str1, str2,
          [i |-> 1, prev |-> ZeroRow(Len(str2)), curr |-> ZeroRow(Len(str2))],
          Len(str1)).curr[Len(str2) + 1]

calculateLCSLength(str1, str2) ==
  LCSRows(str1, str2,
          [i |-> 1, prev |-> ZeroRow(Len(str2)), curr |-> ZeroRow(Len(str2))],
          Len(str1)).prev[Len(str2) + 1]

\* the branch inclusive of the ceiling: a snapshot of exactly 600 lines is large
SignificancePathInclusive(current, previous) ==
  IF current = previous THEN "equal"
  ELSE IF Len(current) >= LineCeiling \/ Len(previous) >= LineCeiling THEN "heuristic"
  ELSE "exact"

\* the branch isSignificantChange takes; split('\n') of a text is its line sequence
SignificancePath(current, previous) ==
  IF current = previous THEN "equal"
  ELSE IF Len(current) > LineCeiling \/ Len(previous) > LineCeiling THEN "heuristic"
  ELSE "exact"

\* insertions only: the lines of the previous snapshot that are gone are not counted
LineEditsInsertionsOnly(currentLines, prevLines) ==
  Len(currentLines) - calculateLCSLength(currentLines, prevLines)

\* the total of both line counts less the LCS once
LineEditsTotalLessLCS(currentLines, prevLines) ==
  (Len(currentLines) + Len(prevLines)) - calculateLCSLength(currentLines, prevLines)

\* edits = (currentLines.length - lcsLen) + (prevLines.length - lcsLen)
LineEdits(currentLines, prevLines) ==
  LET lcsLen == calculateLCSLength(currentLines, prevLines)
  IN (Len(currentLines) - lcsLen) + (Len(prevLines) - lcsLen)

\* the number of lines of the current snapshot that occur nowhere in the previous one
UnseenLines(currentLines, prevLines) ==
  Cardinality({i \in DOMAIN currentLines :
                 \A j \in DOMAIN prevLines : prevLines[j] # currentLines[i]})

\* the heuristic with a membership scan beside the line-count difference
isSignificantChangeWithScan(current, previous) ==
  CASE SignificancePath(current, previous) = "equal" -> FALSE
    [] SignificancePath(current, previous) = "heuristic" ->
         \/ Abs(Len(current) - Len(previous)) >= HeuristicThreshold
         \/ UnseenLines(current, previous) >= HeuristicThreshold
    [] OTHER -> LineEdits(current, previous) >= EditThreshold

\* the exact comparison made strict: more than the threshold of edited lines
isSignificantChangeStrict(current, previous) ==
  CASE SignificancePath(current, previous) = "equal" -> FALSE
    [] SignificancePath(current, previous) = "heuristic" ->
         Abs(Len(current) - Len(previous)) >= HeuristicThreshold
    [] OTHER -> LineEdits(current, previous) > EditThreshold

isSignificantChange(current, previous) ==
  CASE SignificancePath(current, previous) = "equal" -> FALSE
    [] SignificancePath(current, previous) = "heuristic" ->
         Abs(Len(current) - Len(previous)) >= HeuristicThreshold
    [] OTHER -> LineEdits(current, previous) >= EditThreshold

\* ------------------------------------------------------- completion gateway
\* process.env.API_KEY as getApiKey returns it: '' when the variable is not set
NoKey == ""
SomeKey == "key"
ApiKeys == {NoKey, SomeKey}

\* the number of transcript entries generateAgentResponse sends
TurnWindow == 15
\* the number of transcript entries synthesizeNexusState sends
SynthesisWindow == 30

\* history.slice(-k)
SliceLast(history, k) == SubSeq(history, Max(1, Len(history) - k + 1), Len(history))

\* the element of `contents` made of a transcript entry
TurnPart(msg) ==
  [role |-> IF msg.role = USER THEN "user" ELSE "model", text |-> <<msg.role>> \o msg.content]

\* the line of the chat log made of a transcript entry
LogLine(msg) == <<msg.role>> \o msg.content

\* slice(0, 15): the oldest entries of the transcript
OldestHistory(history) ==
  [i \in 1..(IF Len(history) < TurnWindow THEN Len(history) ELSE TurnWindow) |->
     TurnPart(history[i])]

\* recentHistory of generateAgentResponse
RecentHistory(history) ==
  [i \in 1..Len(SliceLast(history, TurnWindow)) |-> TurnPart(SliceLast(history, TurnWindow)[i])]

\* recentHistory of synthesizeNexusState, before the join
RecentLog(history) ==
  [i \in 1..Len(SliceLast(history, SynthesisWindow)) |->
     LogLine(SliceLast(history, SynthesisWindow)[i])]

\* a call of ai.models.generateContent, made for the invocation `caller` of
\* handleSendMessage, or for an invocation of handleSynthesize
AgentCall(caller, role, history) ==
  [fn |-> "generateAgentResponse", caller |-> caller, role |-> role,
   contents |-> RecentHistory(history)]
SynthesisCall(history) ==
  [fn |-> "synthesizeNexusState", caller |-> 0, role |-> "CORE",
   contents |-> RecentLog(history)]

\* the calls of generateContent: those in flight, oldest first, and the number
\* made so far
NoCalls == [pending |-> <<>>, issued |-> 0]

\* a gateway that calls the provider whether or not a key is configured
IssueWithoutKeyCheck(log, key, call) ==
  [pending |-> Append(log.pending, call), issued |-> log.issued + 1]

\* the provider calls after an invocation of a gateway function: with no key the
\* function throws before it builds the client
Issue(log, key, call) ==
  IF key = NoKey THEN log
  ELSE [pending |-> Append(log.pending, call), issued |-> log.issued + 1]

\* the provider calls once the call made for `caller` has ended
Settle(log, caller) ==
  [log EXCEPT !.pending =
     SelectSeq(log.pending,
               LAMBDA c : ~(c.fn = "generateAgentResponse" /\ c.caller = caller))]

\* An error message is the sequence of its words; msg.includes(needle) for a needle
\* of whole words
Includes(msg, needle) ==
  \E i \in 1..(Len(msg) - Len(needle) + 1) : SubSeq(msg, i, i + Len(needle) - 1) = needle

GeminiServiceError(message, type, suggestion) ==
  [message |-> message, type |-> type, suggestion |-> suggestion]

ErrorTypes == {"AUTH", "RATE_LIMIT", "SERVER", "INVALID_REQUEST", "UNKNOWN"}

\* the error handleApiError throws for a caught error with message msg
handleApiError(msg) ==
  IF Includes(msg, <<"API", "key">>) \/ Includes(msg, <<"403">>)
  THEN GeminiServiceError(msg, "AUTH",
         "CRITICAL: API_KEY missing or invalid. Check environment variables.")
  ELSE IF Includes(msg, <<"429">>)
  THEN GeminiServiceError(msg, "RATE_LIMIT",
         "Rate limit exceeded. System requires cooling down (Wait ~60s).")
  ELSE IF Includes(msg, <<"503">>) \/ Includes(msg, <<"500">>)
  THEN GeminiServiceError(msg, "SERVER",
         "Nexus Core is temporarily unreachable. Retrying shortly usually fixes this.")
  ELSE IF Includes(msg, <<"safety">>) \/ Includes(msg, <<"blocked">>)
  THEN GeminiServiceError(msg, "INVALID_REQUEST",
         "Response blocked by safety filters. Refine prompt to avoid sensitive topics.")
  ELSE IF Includes(msg, <<"Empty", "response">>)
  THEN GeminiServiceError(msg, "SERVER",
         "The model returned an empty response. Verify input data.")
  ELSE GeminiServiceError(msg, "UNKNOWN", "Check system logs for details.")

\* what a call of generateContent can end in, besides a usable response
NotCalled == [kind |-> "not called", message |-> <<>>]
Rejected(msg) == [kind |-> "rejected", message |-> msg]
NoCandidate == [kind |-> "no candidate", message |-> <<>>]
Malformed == [kind |-> "malformed", message |-> <<>>]

\* the error generateAgentResponse throws
AgentError(key, outcome) ==
  IF key = NoKey
  THEN GeminiServiceError(<<"API", "Key", "not", "found", "in", "environment.">>, "AUTH",
                          "Set the API_KEY environment variable.")
  ELSE IF outcome.kind = "no candidate"
  THEN handleApiError(<<"Empty", "response", "candidates", "from", "model.">>)
  ELSE handleApiError(outcome.message)

\* the error synthesizeNexusState throws; JSON.parse throws a SyntaxError on a
\* text that is not JSON
SynthesisError(key, outcome) ==
  IF key = NoKey
  THEN GeminiServiceError(<<"API", "Key", "missing.">>, "AUTH",
                          "Set the API_KEY environment variable.")
  ELSE IF outcome.kind = "malformed"
  THEN handleApiError(<<"Unexpected", "token", "in", "JSON">>)
  ELSE handleApiError(outcome.message)

\* ------------------------------------------------------- transcript entries
UserEntry(content) == [role |-> USER, content |-> <<"user", content>>, toolCalls |-> <<>>]
AgentEntry(role, results) == [role |-> role, content |-> <<"reply">>, toolCalls |-> results]
\* handleSystemError speaks with the Architect's role: the context, then the type
\* and message of the error, then its suggestion
ErrorEntry(error, context) ==
  [role |-> ARCHITECT,
   content |-> <<"SYSTEM ERROR", context, error.type>> \o error.message
                 \o <<"SUGGESTION", error.suggestion>>,
   toolCalls |-> <<>>]
SynthesisContext == "State Synthesis"
SynthesisEntry(objChanged, objective, padChanged) ==
  [role |-> ARCHITECT,
   content |-> <<"NEXUS SYNTHESIS COMPLETE",
                 IF objChanged THEN "OBJECTIVE UPDATED" ELSE "",
                 IF objChanged THEN objective ELSE EmptyText,
                 IF padChanged THEN "SCRATCHPAD REVISED" ELSE "">>,
   toolCalls |-> <<>>]


\* ------------------------------------------------------------------ state
VARIABLES
  messages,        \* useState<Message[]>
  nodeState,       \* useState<ContextNodeState>
  agentStatuses,   \* useState: role -> idle | processing | error
  agentPriorities, \* useState: role -> AgentPriority
  mutedAgents,     \* useState: role -> boolean
  unreadAgents,    \* useState: role -> boolean
  failedAgents,    \* useState: role -> boolean
  isSynthesizing,  \* useState<boolean>
  lastSynthesizedContentRef, \* useRef<string>
  rounds,          \* the handleSendMessage invocations suspended at an await
  synthCalls,      \* the handleSynthesize invocations suspended at their await
  sends,           \* handleSendMessage invocations so far
  toolCalls,       \* tool calls received so far
  ops,             \* operator interventions so far
  timer,           \* the pending timeout of the auto-sync effect and its closure
  checkLog,        \* the calls of isSignificantChange so far, oldest first
  edits,           \* artifact edits typed so far
  apiKey,          \* process.env.API_KEY
  providerCalls    \* the calls of ai.models.generateContent: in flight, and made so far

vars == <<messages, nodeState, agentStatuses, agentPriorities, mutedAgents,
          unreadAgents, failedAgents, isSynthesizing, lastSynthesizedContentRef,
          rounds, synthCalls, sends, toolCalls, ops, timer, checkLog, edits,
          apiKey, providerCalls>>

\* the slots of the invocations of handleSendMessage: slot k for the k-th send of
\* the session, slot 0 for an invocation the session starts with in flight
Rounds == 0..MaxSends

\* an invocation of handleSendMessage is "awaiting" while suspended at the await of
\* triggerAgent(executionQueue[idx], ...) and "done" once it has returned; a slot
\* whose invocation has not happened yet is "idle"
IdleRound ==
  [pc |-> "idle", target |-> "ALL", messages |-> <<>>, nodeState |-> INITIAL_NODE_STATE,
   currentSequenceHistory |-> <<>>, executionQueue |-> <<>>, idx |-> 0]

\* the timer counts in seconds
DelayTicks == DebounceDelay \div 1000

\* no timeout pending: it has fired, and no render has set another
NoTimer ==
  [pending |-> FALSE, remaining |-> 0, messages |-> <<>>,
   nodeState |-> INITIAL_NODE_STATE, burst |-> 0]

\* setTimeout(callback, 3000) of a render that shows msgs and state; the callback
\* keeps the messages and nodeState of that render.  burst counts the artifact
\* changes since a timeout last fired.
NewTimer(msgs, state, burst) ==
  [pending |-> TRUE, remaining |-> DelayTicks, messages |-> msgs,
   nodeState |-> state, burst |-> burst]

\* the effect runs after the first render
MountTimer == NewTimer(<<>>, INITIAL_NODE_STATE, 0)

\* an effect that leaves a pending timeout running and sets one only when none is
KeepPendingTimer(msgs, state) ==
  timer' = IF state.activeFile # nodeState.activeFile /\ ~timer.pending
           THEN NewTimer(msgs, state, 1)
           ELSE timer

\* useEffect(..., [nodeState.activeFile]) after the render that shows msgs and
\* state: when the artifact differs from the previous render's, the cleanup
\* clears the pending timeout and a new one is set
DebounceEffect(msgs, state) ==
  timer' = IF state.activeFile # nodeState.activeFile
           THEN NewTimer(msgs, state, IF timer.pending THEN timer.burst + 1 ELSE 1)
           ELSE timer

Init ==
  /\ messages = <<>>
  /\ nodeState = INITIAL_NODE_STATE
  /\ agentStatuses = [r \in AgentRole |-> "idle"]
  /\ agentPriorities = [r \in AgentRole |->
                          CASE r = ARCHITECT -> HIGH
                            [] r = ENGINEER -> NORMAL
                            [] r = CRITIC -> LOW
                            [] OTHER -> NORMAL]
  /\ mutedAgents = [r \in AgentRole |-> FALSE]
  /\ unreadAgents = [r \in AgentRole |-> FALSE]
  /\ failedAgents = [r \in AgentRole |-> FALSE]
  /\ isSynthesizing = FALSE
  /\ lastSynthesizedContentRef = INITIAL_NODE_STATE.activeFile
  /\ rounds = [r \in Rounds |-> IdleRound]
  /\ synthCalls = <<>>
  /\ sends = 0 /\ toolCalls = 0 /\ ops = 0
  /\ timer = MountTimer
  /\ checkLog = <<>>
  /\ edits = 0
  /\ apiKey = SomeKey
  /\ providerCalls = NoCalls

\* ------------------------------------------------------- operator controls
toggleMute(role) ==
  /\ ops < MaxOps
  /\ mutedAgents' = [mutedAgents EXCEPT ![role] = ~mutedAgents[role]]
  /\ ops' = ops + 1
  /\ UNCHANGED <<messages, nodeState, agentStatuses, agentPriorities, unreadAgents,
                 failedAgents, isSynthesizing, lastSynthesizedContentRef, rounds,
                 synthCalls, sends, toolCalls, timer,
                 checkLog, edits, apiKey, providerCalls>>

nextPriority(p) ==
  CASE p = LOW -> NORMAL
    [] p = NORMAL -> HIGH
    [] p = HIGH -> LOW

cyclePriority(role) ==
  /\ ops < MaxOps
  /\ agentPriorities' = [agentPriorities EXCEPT ![role] = nextPriority(agentPriorities[role])]
  /\ ops' = ops + 1
  /\ UNCHANGED <<messages, nodeState, agentStatuses, mutedAgents, unreadAgents,
                 failedAgents, isSynthesizing, lastSynthesizedContentRef, rounds,
                 synthCalls, sends, toolCalls, timer,
                 checkLog, edits, apiKey, providerCalls>>

\* ContextBoard.handleChange: onChange({ ...state, [field]: value })
handleChange(field, value) ==
  /\ ops < MaxOps
  /\ nodeState' = Spread(nodeState, [k \in {field} |-> value])
  /\ DebounceEffect(messages, nodeState')
  /\ ops' = ops + 1
  /\ UNCHANGED <<messages, agentStatuses, agentPriorities, mutedAgents, unreadAgents,
                 failedAgents, isSynthesizing, lastSynthesizedContentRef, rounds,
                 synthCalls, sends, toolCalls, checkLog, edits, apiKey, providerCalls>>


\* ------------------------------------------------------- inputs
UserInputs == {"hello"}
Targets == {"ALL"} \cup AgentRole

\* argument objects of an update_nexus_state call: any subset of the properties
ToolArgs ==
  UNION { [S -> ArgValues] : S \in {T \in SUBSET ArgNames : Cardinality(T) <= 1} }

ToolCallInputs ==
  {[name |-> UpdateNexusState, args |-> a, status |-> "pending"] : a \in ToolArgs}
  \cup {[name |-> GetActiveFile, args |-> EmptyObject, status |-> "pending"]}
  \cup {[name |-> OtherTool, args |-> [scratchpad |-> TextX], status |-> "pending"]}

\* the agent cards shown in the top bar
BroadcastSet == {ARCHITECT, ENGINEER, CRITIC}
\* values the operator types into a field of the context board
EditValues == {EmptyText, TextX}

\* response.toolCalls
Responses(budget) == UNION { [1..n -> ToolCallInputs] : n \in 0..budget }

\* ------------------------------------------------------- agent rounds
AgentContext(role) ==
  CASE role = ARCHITECT -> "Agent Architect"
    [] role = ENGINEER -> "Agent Engineer"
    [] role = CRITIC -> "Agent Critic"
    [] OTHER -> "Agent User"

\* a loop that breaks at the first failed turn
AbortRoundOnFailure(slot, rd, outcome, failed) ==
  LET role == rd.executionQueue[rd.idx] IN
  IF rd.idx < Len(rd.executionQueue) /\ outcome # "error"
  THEN LET next == rd.executionQueue[rd.idx + 1] IN
       /\ rounds' = [rounds EXCEPT ![slot] = [rd EXCEPT !.idx = rd.idx + 1]]
       /\ agentStatuses' = [agentStatuses EXCEPT ![role] = outcome, ![next] = "processing"]
       /\ failedAgents' = [failedAgents EXCEPT ![role] = failed, ![next] = FALSE]
       /\ providerCalls' = Issue(Settle(providerCalls, slot), apiKey,
                                 AgentCall(slot, next, rd.currentSequenceHistory))
  ELSE /\ rounds' = [rounds EXCEPT ![slot] = [rd EXCEPT !.idx = rd.idx + 1, !.pc = "done"]]
       /\ agentStatuses' = [agentStatuses EXCEPT ![role] = outcome]
       /\ failedAgents' = [failedAgents EXCEPT ![role] = failed]
       /\ providerCalls' = Settle(providerCalls, slot)

\* a loop that calls a failed agent a second time before it goes on
RetryFailedTurn(slot, rd, outcome, failed) ==
  LET role == rd.executionQueue[rd.idx] IN
  IF outcome = "error" /\ ~failedAgents[role]
  THEN /\ rounds' = [rounds EXCEPT ![slot] = rd]
       /\ agentStatuses' = [agentStatuses EXCEPT ![role] = "processing"]
       /\ failedAgents' = [failedAgents EXCEPT ![role] = failed]
       /\ providerCalls' = Issue(Settle(providerCalls, slot), apiKey,
                                 AgentCall(slot, role, rd.currentSequenceHistory))
  ELSE IF rd.idx < Len(rd.executionQueue)
  THEN LET next == rd.executionQueue[rd.idx + 1] IN
       /\ rounds' = [rounds EXCEPT ![slot] = [rd EXCEPT !.idx = rd.idx + 1]]
       /\ agentStatuses' = [agentStatuses EXCEPT ![role] = outcome, ![next] = "processing"]
       /\ failedAgents' = [failedAgents EXCEPT ![role] = failed, ![next] = FALSE]
       /\ providerCalls' = Issue(Settle(providerCalls, slot), apiKey,
                                 AgentCall(slot, next, rd.currentSequenceHistory))
  ELSE /\ rounds' = [rounds EXCEPT ![slot] = [rd EXCEPT !.idx = rd.idx + 1, !.pc = "done"]]
       /\ agentStatuses' = [agentStatuses EXCEPT ![role] = outcome]
       /\ failedAgents' = [failedAgents EXCEPT ![role] = failed]
       /\ providerCalls' = Settle(providerCalls, slot)

\* the loop of handleSendMessage after the turn of executionQueue[idx] has
\* returned with status `outcome`: the next triggerAgent runs up to its await,
\* or the invocation returns
ContinueRound(slot, rd, outcome, failed) ==
  LET role == rd.executionQueue[rd.idx] IN
  IF rd.idx < Len(rd.executionQueue)
  THEN LET next == rd.executionQueue[rd.idx + 1] IN
       /\ rounds' = [rounds EXCEPT ![slot] = [rd EXCEPT !.idx = rd.idx + 1]]
       /\ agentStatuses' = [agentStatuses EXCEPT ![role] = outcome, ![next] = "processing"]
       /\ failedAgents' = [failedAgents EXCEPT ![role] = failed, ![next] = FALSE]
       /\ providerCalls' = Issue(Settle(providerCalls, slot), apiKey,
                                 AgentCall(slot, next, rd.currentSequenceHistory))
  ELSE /\ rounds' = [rounds EXCEPT ![slot] = [rd EXCEPT !.idx = rd.idx + 1, !.pc = "done"]]
       /\ agentStatuses' = [agentStatuses EXCEPT ![role] = outcome]
       /\ failedAgents' = [failedAgents EXCEPT ![role] = failed]
       /\ providerCalls' = Settle(providerCalls, slot)

\* handleSendMessage up to the first await
handleSendMessage(content, target) ==
  /\ sends < MaxSends
  /\ sends' = sends + 1
  /\ \E slot \in {sends + 1} :
       /\ LET userMessage == UserEntry(content)
              currentSequenceHistory == Append(messages, userMessage)
              executionQueue == ExecutionQueue(target, mutedAgents, agentPriorities)
                 invocation ==
                   [pc |-> "awaiting", target |-> target, messages |-> messages,
                    nodeState |-> nodeState,
                    currentSequenceHistory |-> currentSequenceHistory,
                    executionQueue |-> executionQueue, idx |-> 1]
          IN /\ messages' = currentSequenceHistory
             /\ unreadAgents' = [r \in AgentRole |-> IF r # USER THEN TRUE ELSE unreadAgents[r]]
             /\ IF executionQueue = <<>>
                THEN /\ rounds' = [rounds EXCEPT ![slot] = [invocation EXCEPT !.pc = "done"]]
                     /\ UNCHANGED <<agentStatuses, failedAgents, providerCalls>>
                ELSE /\ rounds' = [rounds EXCEPT ![slot] = invocation]
                     /\ agentStatuses' = [agentStatuses EXCEPT ![executionQueue[1]] = "processing"]
                     /\ failedAgents' = [failedAgents EXCEPT ![executionQueue[1]] = FALSE]
                     /\ providerCalls' = Issue(providerCalls, apiKey,
                                               AgentCall(slot, executionQueue[1], currentSequenceHistory))
  /\ UNCHANGED <<nodeState, agentPriorities, mutedAgents, isSynthesizing,
                 lastSynthesizedContentRef, synthCalls, toolCalls, ops, timer,
                 checkLog, edits, apiKey>>

\* the local chain forgets the reply: the next agent is given the old history
KeepHistory(currentSequenceHistory, msg) == currentSequenceHistory

\* currentSequenceHistory = [...currentSequenceHistory, msg]
ExtendHistory(currentSequenceHistory, msg) == Append(currentSequenceHistory, msg)

\* generateAgentResponse resolves: triggerAgent applies the tool calls and returns
\* the entry, handleSendMessage appends it and goes on with the queue
AgentResponds(slot, calls) ==
  /\ rounds[slot].pc = "awaiting"
  /\ apiKey # NoKey
  /\ toolCalls' = toolCalls + Len(calls)
  /\ LET rd == rounds[slot]
         role == rd.executionQueue[rd.idx]
         toolResults == ToolResults(calls, rd.nodeState)
         agentMsg == AgentEntry(role, toolResults)
         history == ExtendHistory(rd.currentSequenceHistory, agentMsg)
     IN /\ nodeState' = MergeToolUpdates(nodeState, rd.nodeState, calls)
        /\ unreadAgents' = [unreadAgents EXCEPT ![role] = FALSE]
        /\ messages' = history
        /\ ContinueRound(slot, [rd EXCEPT !.currentSequenceHistory = history],
                         "idle", failedAgents[role])
  /\ DebounceEffect(messages', nodeState')
  /\ UNCHANGED <<agentPriorities, mutedAgents, isSynthesizing, lastSynthesizedContentRef,
                 synthCalls, sends, ops, checkLog, edits, apiKey>>

\* generateAgentResponse throws, the provider call having ended in `outcome` if
\* one was issued: the catch of triggerAgent
AgentFails(slot, outcome) ==
  /\ rounds[slot].pc = "awaiting"
  /\ outcome.kind \in {"not called", "rejected", "no candidate"}
  /\ (apiKey = NoKey) <=> (outcome = NotCalled)
  /\ LET rd == rounds[slot]
         role == rd.executionQueue[rd.idx]
     IN /\ messages' = Append(messages, ErrorEntry(AgentError(apiKey, outcome),
                                                   AgentContext(role)))
        /\ ContinueRound(slot, rd, "error", TRUE)
  /\ UNCHANGED <<nodeState, agentPriorities, mutedAgents, unreadAgents, isSynthesizing,
                 lastSynthesizedContentRef, synthCalls, sends, toolCalls, ops, timer,
                 checkLog, edits, apiKey>>


\* ------------------------------------------------------- state synthesis
\* what JSON.parse(response.text || '{}') yields for a field
SynthValues == {Undefined, EmptyText, TextX}
SynthUpdates == [objective : SynthValues, scratchpad : SynthValues]

\* response.text of a synthesis call: nothing, or the JSON text of an object
NoText == [kind |-> "no text", result |-> EmptyObject]
JsonText(result) == [kind |-> "json", result |-> result]

\* a field of a parsed object: undefined when the object does not have it
Field(result, name) == IF name \in DOMAIN result THEN result[name] ELSE Undefined

\* what synthesizeNexusState returns for a response: JSON.parse(response.text || '{}')
\* and the two fields picked from it
synthesizeResult(response) ==
  LET result == IF response.kind = "no text" THEN EmptyObject ELSE response.result
  IN [objective |-> Field(result, "objective"), scratchpad |-> Field(result, "scratchpad")]

RemoveAt(seq, i) == SubSeq(seq, 1, i - 1) \o SubSeq(seq, i + 1, Len(seq))

\* the provider calls in flight once the call of the i-th suspended invocation of
\* handleSynthesize has ended
SettleSynthesis(log, key, i) ==
  IF key = NoKey THEN log
  ELSE LET mine == {p \in DOMAIN log.pending : log.pending[p].fn = "synthesizeNexusState"}
           at == CHOOSE p \in mine : Cardinality({q \in mine : q <= p}) = i
       IN [log EXCEPT !.pending = RemoveAt(log.pending, at)]

\* handleSynthesize up to its await, invoked from a render whose messages and
\* nodeState are msgs and state
StartSynthesis(triggerSource, msgs, state) ==
  /\ isSynthesizing' = TRUE
  /\ synthCalls' = Append(synthCalls,
                          [triggerSource |-> triggerSource, messages |-> msgs, nodeState |-> state])
  /\ providerCalls' = Issue(providerCalls, apiKey, SynthesisCall(msgs))

\* the EXECUTE SYNC button, disabled while isSynthesizing
ManualSynthesize ==
  /\ ~isSynthesizing
  /\ ops < MaxOps
  /\ ops' = ops + 1
  /\ StartSynthesis("MANUAL", messages, nodeState)
  /\ UNCHANGED <<messages, nodeState, agentStatuses, agentPriorities, mutedAgents,
                 unreadAgents, failedAgents, lastSynthesizedContentRef, rounds,
                 sends, toolCalls, timer, checkLog, edits, apiKey>>

\* the merge onto the snapshot the pass was invoked with, setNodeState({ ...nodeState, ... })
MergeSynthesisOntoSnapshot(prev, snapshot, updates) == Spread(snapshot, updates)

\* the store after the pass's setNodeState(prev => ({ ...prev, ...updates }))
MergeSynthesis(prev, snapshot, updates) == Spread(prev, updates)

\* a pass that announces a changed objective only
AnnouncesObjectiveOnly(triggerSource, hasObjectiveChanged) == hasObjectiveChanged

\* whether a pass that merges appends its summary entry
Announces(triggerSource, hasObjectiveChanged) ==
  triggerSource = "MANUAL" \/ hasObjectiveChanged

\* synthesizeNexusState resolves with updates
SynthesisResponds(i, updates) ==
  /\ i \in 1..Len(synthCalls)
  /\ apiKey # NoKey
  /\ LET call == synthCalls[i]
         hasObjectiveChanged ==
           Truthy(updates.objective) /\ updates.objective # call.nodeState.objective
         hasScratchpadChanged ==
           Truthy(updates.scratchpad) /\ updates.scratchpad # call.nodeState.scratchpad
     IN IF hasObjectiveChanged \/ hasScratchpadChanged \/ call.triggerSource = "MANUAL"
        THEN /\ nodeState' = MergeSynthesis(nodeState, call.nodeState, updates)
             /\ messages' =
                  IF Announces(call.triggerSource, hasObjectiveChanged)
                  THEN Append(messages, SynthesisEntry(hasObjectiveChanged, updates.objective,
                                                       hasScratchpadChanged))
                  ELSE messages
             /\ lastSynthesizedContentRef' = call.nodeState.activeFile
        ELSE UNCHANGED <<nodeState, messages, lastSynthesizedContentRef>>
  /\ DebounceEffect(messages', nodeState')
  /\ isSynthesizing' = FALSE
  /\ synthCalls' = RemoveAt(synthCalls, i)
  /\ providerCalls' = SettleSynthesis(providerCalls, apiKey, i)
  /\ UNCHANGED <<agentStatuses, agentPriorities, mutedAgents, unreadAgents, failedAgents,
                 rounds, sends, toolCalls, ops, checkLog, edits, apiKey>>

\* a handler without the finally: a failed pass leaves the sync control disabled
SynthesisFailsLeavingBusy(i, outcome) ==
  /\ i \in 1..Len(synthCalls)
  /\ outcome.kind \in {"not called", "rejected", "malformed"}
  /\ (apiKey = NoKey) <=> (outcome = NotCalled)
  /\ messages' = Append(messages, ErrorEntry(SynthesisError(apiKey, outcome), SynthesisContext))
  /\ isSynthesizing' = isSynthesizing
  /\ synthCalls' = RemoveAt(synthCalls, i)
  /\ providerCalls' = SettleSynthesis(providerCalls, apiKey, i)
  /\ UNCHANGED <<nodeState, agentStatuses, agentPriorities, mutedAgents, unreadAgents,
                 failedAgents, lastSynthesizedContentRef, rounds, sends, toolCalls, ops, timer,
                 checkLog, edits, apiKey>>

\* synthesizeNexusState throws, the provider call having ended in `outcome` if one
\* was issued: the catch and finally of handleSynthesize
SynthesisFails(i, outcome) ==
  /\ i \in 1..Len(synthCalls)
  /\ outcome.kind \in {"not called", "rejected", "malformed"}
  /\ (apiKey = NoKey) <=> (outcome = NotCalled)
  /\ messages' = Append(messages, ErrorEntry(SynthesisError(apiKey, outcome), SynthesisContext))
  /\ isSynthesizing' = FALSE
  /\ synthCalls' = RemoveAt(synthCalls, i)
  /\ providerCalls' = SettleSynthesis(providerCalls, apiKey, i)
  /\ UNCHANGED <<nodeState, agentStatuses, agentPriorities, mutedAgents, unreadAgents,
                 failedAgents, lastSynthesizedContentRef, rounds, sends, toolCalls, ops, timer,
                 checkLog, edits, apiKey>>

\* ------------------------------------------------------- auto-sync
\* lines of an artifact, distinct from one another
Line1 == "1"
Line2 == "2"
Line3 == "3"
Line4 == "4"
Line5 == "5"
TwoLines == <<Line1, Line2>>
FourLines == <<Line1, Line2, Line3, Line4>>

\* what the operator leaves in the artifact editor after an edit
ArtifactValues == {EmptyText, TwoLines, FourLines}

\* the artifact textarea of the context board: handleChange('activeFile', value)
editActiveFile(value) ==
  /\ edits < MaxEdits
  /\ edits' = edits + 1
  /\ nodeState' = Spread(nodeState, [k \in {"activeFile"} |-> value])
  /\ DebounceEffect(messages, nodeState')
  /\ UNCHANGED <<messages, agentStatuses, agentPriorities, mutedAgents, unreadAgents,
                 failedAgents, isSynthesizing, lastSynthesizedContentRef, rounds,
                 synthCalls, sends, toolCalls, ops, checkLog, apiKey, providerCalls>>

\* a second passes while a timeout is pending
Tick ==
  /\ timer.pending
  /\ timer.remaining > 0
  /\ timer' = [timer EXCEPT !.remaining = @ - 1]
  /\ UNCHANGED <<messages, nodeState, agentStatuses, agentPriorities, mutedAgents,
                 unreadAgents, failedAgents, isSynthesizing, lastSynthesizedContentRef,
                 rounds, synthCalls, sends, toolCalls, ops, checkLog, edits, apiKey, providerCalls>>

\* a callback that takes every non-empty artifact for a significant change
ShouldAutoSyncAnyContent(state, baseline) == Truthy(state.activeFile)

\* a callback that runs the detector on an empty artifact too
ShouldAutoSyncEmptyToo(state, baseline) == isSignificantChange(state.activeFile, baseline)

\* the condition of the timeout callback
ShouldAutoSync(state, baseline) ==
  Truthy(state.activeFile) /\ isSignificantChange(state.activeFile, baseline)

\* the entry of checkLog for a call isSignificantChange(current, previous)
CheckRecord(current, previous, verdict, burst) ==
  [current |-> current, previous |-> previous,
   path |-> SignificancePath(current, previous), verdict |-> verdict, burst |-> burst]

\* a callback that takes the checked content for the new baseline whatever the verdict
TimerFiresAdvancingBaseline ==
  /\ timer.pending
  /\ timer.remaining = 0
  /\ timer' = NoTimer
  /\ LET state == timer.nodeState
         sync == ShouldAutoSync(state, lastSynthesizedContentRef)
     IN /\ checkLog' =
             IF Truthy(state.activeFile)
             THEN Append(checkLog, CheckRecord(state.activeFile, lastSynthesizedContentRef,
                                               sync, timer.burst))
             ELSE checkLog
        /\ lastSynthesizedContentRef' =
             IF Truthy(state.activeFile) THEN state.activeFile ELSE lastSynthesizedContentRef
        /\ IF sync
           THEN StartSynthesis("AUTO", timer.messages, state)
           ELSE UNCHANGED <<isSynthesizing, synthCalls, providerCalls>>
  /\ UNCHANGED <<messages, nodeState, agentStatuses, agentPriorities, mutedAgents,
                 unreadAgents, failedAgents, rounds, sends, toolCalls, ops, edits, apiKey>>

\* the timeout fires: the callback of the render that set it runs, with that
\* render's messages and nodeState and the ref's value of the moment
TimerFires ==
  /\ timer.pending
  /\ timer.remaining = 0
  /\ timer' = NoTimer
  /\ LET state == timer.nodeState
         sync == ShouldAutoSync(state, lastSynthesizedContentRef)
     IN /\ checkLog' =
             IF Truthy(state.activeFile)
             THEN Append(checkLog, CheckRecord(state.activeFile, lastSynthesizedContentRef,
                                               sync, timer.burst))
             ELSE checkLog
        /\ IF sync
           THEN StartSynthesis("AUTO", timer.messages, state)
           ELSE UNCHANGED <<isSynthesizing, synthCalls, providerCalls>>
  /\ UNCHANGED <<messages, nodeState, agentStatuses, agentPriorities, mutedAgents,
                 unreadAgents, failedAgents, lastSynthesizedContentRef, rounds, sends,
                 toolCalls, ops, edits, apiKey>>

\* ------------------------------------------------------- specification
SendMessage == \E c \in UserInputs, t \in Targets : handleSendMessage(c, t)
AgentResponse ==
  \E slot \in Rounds, calls \in Responses(MaxToolCalls - toolCalls) : AgentResponds(slot, calls)
\* the provider is overloaded
Overloaded == Rejected(<<"503", "Service", "Unavailable">>)
AgentFailure == \E slot \in Rounds : AgentFails(slot, Overloaded)
ToggleMute == \E r \in BroadcastSet : toggleMute(r)
CyclePriority == \E r \in BroadcastSet : cyclePriority(r)
OperatorEdit == \E f \in StateFields, v \in EditValues : handleChange(f, v)
SynthesisResponse == \E i \in DOMAIN synthCalls, u \in SynthUpdates : SynthesisResponds(i, u)
SynthesisFailure == \E i \in DOMAIN synthCalls : SynthesisFails(i, Overloaded)
ArtifactEdit == \E v \in ArtifactValues : editActiveFile(v)

Next ==
  \/ SendMessage
  \/ AgentResponse
  \/ AgentFailure
  \/ ToggleMute
  \/ CyclePriority
  \/ OperatorEdit
  \/ ManualSynthesize
  \/ SynthesisResponse
  \/ SynthesisFailure
  \/ Tick
  \/ TimerFires

Spec == Init /\ [][Next]_vars


\* Any configuration of mute flags and priorities the operator can click together
\* before sending, with no further intervention afterwards and responses that
\* carry text only.
InitQueue ==
  /\ messages = <<>>
  /\ nodeState = INITIAL_NODE_STATE
  /\ agentStatuses = [r \in AgentRole |-> "idle"]
  /\ agentPriorities \in {p \in [AgentRole -> AgentPriority] : p[USER] = NORMAL}
  /\ mutedAgents \in {m \in [AgentRole -> BOOLEAN] : ~m[USER]}
  /\ unreadAgents = [r \in AgentRole |-> FALSE]
  /\ failedAgents = [r \in AgentRole |-> FALSE]
  /\ isSynthesizing = FALSE
  /\ lastSynthesizedContentRef = INITIAL_NODE_STATE.activeFile
  /\ rounds = [r \in Rounds |-> IdleRound]
  /\ synthCalls = <<>>
  /\ sends = 0 /\ toolCalls = MaxToolCalls /\ ops = MaxOps
  /\ timer = MountTimer
  /\ checkLog = <<>>
  /\ edits = 0
  /\ apiKey = SomeKey
  /\ providerCalls = NoCalls

NextQueue ==
  \/ SendMessage
  \/ AgentResponse
  \/ AgentFailure

SpecQueue == InitQueue /\ [][NextQueue]_vars

\* The synchronization trigger on its own: the operator edits the artifact, time
\* passes, the timeout fires, the synthesis calls it starts return.
NextSync ==
  \/ ArtifactEdit
  \/ Tick
  \/ TimerFires
  \/ SynthesisResponse
  \/ SynthesisFailure

SpecSync == Init /\ [][NextSync]_vars

\* n copies of one line
Filler(n) == [i \in 1..n |-> "a"]
FiveNewLines == <<Line1, Line2, Line3, Line4, Line5>>
OneLine == <<"a">>

\* artifacts of a few lines
ShortTexts ==
  {EmptyText, OneLine, OneLine \o <<Line1>>, OneLine \o FourLines,
   OneLine \o FiveNewLines, <<"a", "b">>, <<"b", "a">>, TwoLines, FourLines}

\* artifacts at and above the ceiling
LargeTexts ==
  {Filler(LineCeiling), Filler(LineCeiling - 5) \o FiveNewLines,
   Filler(LineCeiling + 1), Filler(LineCeiling - 4) \o FiveNewLines,
   Filler(LineCeiling + 5), Filler(LineCeiling + 6)}

\* <<current, previous>>: the artifact when the timeout fires and the baseline
DiffPairs == (ShortTexts \X ShortTexts) \cup (LargeTexts \X LargeTexts)

\* The session was restored with the artifact `previous` saved; either the timeout
\* set at mount is due, or the operator has replaced the artifact by `current` and
\* the timeout set by that edit is due.
InitDiff ==
  \E pair \in DiffPairs :
    LET current == pair[1]
        previous == pair[2]
        state == [INITIAL_NODE_STATE EXCEPT !.activeFile = current]
    IN /\ messages = <<>>
       /\ nodeState = state
       /\ agentStatuses = [r \in AgentRole |-> "idle"]
       /\ agentPriorities = [r \in AgentRole |->
                               CASE r = ARCHITECT -> HIGH
                                 [] r = ENGINEER -> NORMAL
                                 [] r = CRITIC -> LOW
                                 [] OTHER -> NORMAL]
       /\ mutedAgents = [r \in AgentRole |-> FALSE]
       /\ unreadAgents = [r \in AgentRole |-> FALSE]
       /\ failedAgents = [r \in AgentRole |-> FALSE]
       /\ isSynthesizing = FALSE
       /\ lastSynthesizedContentRef = previous
       /\ rounds = [r \in Rounds |-> IdleRound]
       /\ synthCalls = <<>>
       /\ sends = 0 /\ toolCalls = 0 /\ ops = 0
       /\ edits = IF current = previous THEN 0 ELSE 1
       /\ timer = [NewTimer(<<>>, state, IF current = previous THEN 0 ELSE 1)
                     EXCEPT !.remaining = 0]
       /\ checkLog = <<>>
       /\ apiKey = SomeKey
       /\ providerCalls = NoCalls

NextDiff == TimerFires

SpecDiff == InitDiff /\ [][NextDiff]_vars

\* The reconciliation pass, manual and automatic: a session in which the operator
\* has typed into the artifact editor and cleared it again, the timeouts have
\* fired, and two more artifact edits and one more intervention are to come.
InitReconcile ==
  /\ messages = <<>>
  /\ nodeState = INITIAL_NODE_STATE
  /\ agentStatuses = [r \in AgentRole |-> "idle"]
  /\ agentPriorities = [r \in AgentRole |->
                          CASE r = ARCHITECT -> HIGH
                            [] r = ENGINEER -> NORMAL
                            [] r = CRITIC -> LOW
                            [] OTHER -> NORMAL]
  /\ mutedAgents = [r \in AgentRole |-> FALSE]
  /\ unreadAgents = [r \in AgentRole |-> FALSE]
  /\ failedAgents = [r \in AgentRole |-> FALSE]
  /\ isSynthesizing = FALSE
  /\ lastSynthesizedContentRef = INITIAL_NODE_STATE.activeFile
  /\ rounds = [r \in Rounds |-> IdleRound]
  /\ synthCalls = <<>>
  /\ sends = MaxSends /\ toolCalls = MaxToolCalls /\ ops = MaxOps - 1
  /\ timer = NoTimer
  /\ checkLog = <<>>
  /\ edits = MaxEdits - 2
  /\ apiKey = SomeKey
  /\ providerCalls = NoCalls

NextReconcile ==
  \/ ArtifactEdit
  \/ OperatorEdit
  \/ ManualSynthesize
  \/ Tick
  \/ TimerFires
  \/ SynthesisResponse
  \/ SynthesisFailure

SpecReconcile == InitReconcile /\ [][NextReconcile]_vars

\* The gateway under every outcome of the provider: a session with or without a
\* key, whose transcript holds n user entries sent while every agent was muted,
\* the agents unmuted since; responses carry text only.
Transcript(n) == [k \in 1..n |-> UserEntry(ToString(k))]
TranscriptLengths == {0, TurnWindow - 1, SynthesisWindow}

\* messages of the errors a provider call is rejected with
ErrorMessages ==
  {<<"API", "key", "not", "valid">>, <<"429", "Too", "Many", "Requests">>,
   <<"503", "Service", "Unavailable">>, <<"blocked", "by", "safety", "settings">>,
   <<"fetch", "failed">>, <<"403", "after", "429">>}

AgentOutcomes == {NotCalled, NoCandidate} \cup {Rejected(m) : m \in ErrorMessages}
SynthesisOutcomes == {NotCalled, Malformed} \cup {Rejected(m) : m \in ErrorMessages}

\* objects the model answers a synthesis call with
JsonResults ==
  UNION { [S -> {EmptyText, TextX}] : S \in SUBSET {"objective", "scratchpad", "reasoning"} }
SynthesisTexts == {NoText} \cup {JsonText(r) : r \in JsonResults}

InitGateway ==
  \E n \in TranscriptLengths :
    /\ messages = Transcript(n)
    /\ nodeState = INITIAL_NODE_STATE
    /\ agentStatuses = [r \in AgentRole |-> "idle"]
    /\ agentPriorities = [r \in AgentRole |->
                            CASE r = ARCHITECT -> HIGH
                              [] r = ENGINEER -> NORMAL
                              [] r = CRITIC -> LOW
                              [] OTHER -> NORMAL]
    /\ mutedAgents = [r \in AgentRole |-> FALSE]
    /\ unreadAgents = [r \in AgentRole |-> n > 0 /\ r # USER]
    /\ failedAgents = [r \in AgentRole |-> FALSE]
    /\ isSynthesizing = FALSE
    /\ lastSynthesizedContentRef = INITIAL_NODE_STATE.activeFile
    /\ rounds = [r \in Rounds |-> IdleRound]
    /\ synthCalls = <<>>
    /\ sends = MaxSends - 1 /\ toolCalls = MaxToolCalls /\ ops = MaxOps - 1
    /\ timer = NoTimer
    /\ checkLog = <<>>
    /\ edits = MaxEdits
    /\ apiKey \in ApiKeys
    /\ providerCalls = NoCalls

GatewayAgentFailure == \E slot \in Rounds, o \in AgentOutcomes : AgentFails(slot, o)
GatewaySynthesisResponse ==
  \E i \in DOMAIN synthCalls, r \in SynthesisTexts : SynthesisResponds(i, synthesizeResult(r))
GatewaySynthesisFailure ==
  \E i \in DOMAIN synthCalls, o \in SynthesisOutcomes : SynthesisFails(i, o)

NextGateway ==
  \/ SendMessage
  \/ AgentResponse
  \/ GatewayAgentFailure
  \/ ManualSynthesize
  \/ GatewaySynthesisResponse
  \/ GatewaySynthesisFailure

SpecGateway == InitGateway /\ [][NextGateway]_vars

\* The gateway with the steps the application takes without waiting for anyone:
\* a gateway function invoked without a key throws at once.  The provider is
\* under no obligation to answer, and the operator under none to act.
MissingKeyFailure ==
  \/ \E slot \in Rounds : AgentFails(slot, NotCalled)
  \/ \E i \in DOMAIN synthCalls : SynthesisFails(i, NotCalled)

SpecHang == InitGateway /\ [][NextGateway]_vars /\ WF_vars(MissingKeyFailure)

\* The longest-common-subsequence computation on every pair of artifacts of a few
\* lines over two distinct lines, repeated lines included: the session was restored
\* with the artifact `previous` saved, the operator has left `current` in the
\* editor and the timeout is due.
LineAlphabet == {"a", "b"}
LineSeqs(lo, hi) == UNION { [1..k -> LineAlphabet] : k \in lo..hi }

InitLCS ==
  \E current \in LineSeqs(1, MaxLines), previous \in LineSeqs(1, MaxLines) :
    LET state == [INITIAL_NODE_STATE EXCEPT !.activeFile = current]
    IN /\ messages = <<>>
       /\ nodeState = state
       /\ agentStatuses = [r \in AgentRole |-> "idle"]
       /\ agentPriorities = [r \in AgentRole |->
                               CASE r = ARCHITECT -> HIGH
                                 [] r = ENGINEER -> NORMAL
                                 [] r = CRITIC -> LOW
                                 [] OTHER -> NORMAL]
       /\ mutedAgents = [r \in AgentRole |-> FALSE]
       /\ unreadAgents = [r \in AgentRole |-> FALSE]
       /\ failedAgents = [r \in AgentRole |-> FALSE]
       /\ isSynthesizing = FALSE
       /\ lastSynthesizedContentRef = previous
       /\ rounds = [r \in Rounds |-> IdleRound]
       /\ synthCalls = <<>>
       /\ sends = MaxSends /\ toolCalls = MaxToolCalls /\ ops = MaxOps
       /\ edits = MaxEdits
       /\ timer = [NewTimer(<<>>, state, IF current = previous THEN 0 ELSE 1)
                     EXCEPT !.remaining = 0]
       /\ checkLog = <<>>
       /\ apiKey = SomeKey
       /\ providerCalls = NoCalls

NextLCS == TimerFires

SpecLCS == InitLCS /\ [][NextLCS]_vars

\* Sends while a round is in flight: the operator has sent "hello" to all agents
\* of a fresh session, the Architect's call is in flight, and the operator types
\* further messages and presses Enter; the responses carry text only.
RoundInFlight ==
  [pc |-> "awaiting", target |-> "ALL", messages |-> <<>>, nodeState |-> INITIAL_NODE_STATE,
   currentSequenceHistory |-> <<UserEntry("hello")>>,
   executionQueue |-> BroadcastRoles, idx |-> 1]

InitInterleave ==
  /\ messages = RoundInFlight.currentSequenceHistory
  /\ nodeState = INITIAL_NODE_STATE
  /\ agentStatuses = [r \in AgentRole |-> IF r = ARCHITECT THEN "processing" ELSE "idle"]
  /\ agentPriorities = [r \in AgentRole |->
                          CASE r = ARCHITECT -> HIGH
                            [] r = ENGINEER -> NORMAL
                            [] r = CRITIC -> LOW
                            [] OTHER -> NORMAL]
  /\ mutedAgents = [r \in AgentRole |-> FALSE]
  /\ unreadAgents = [r \in AgentRole |-> r # USER]
  /\ failedAgents = [r \in AgentRole |-> FALSE]
  /\ isSynthesizing = FALSE
  /\ lastSynthesizedContentRef = INITIAL_NODE_STATE.activeFile
  /\ rounds = [r \in Rounds |-> IF r = 0 THEN RoundInFlight ELSE IdleRound]
  /\ synthCalls = <<>>
  /\ sends = 0 /\ toolCalls = MaxToolCalls /\ ops = MaxOps
  /\ timer = NoTimer
  /\ checkLog = <<>>
  /\ edits = MaxEdits
  /\ apiKey = SomeKey
  /\ providerCalls = Issue(NoCalls, SomeKey,
                           AgentCall(0, ARCHITECT, RoundInFlight.currentSequenceHistory))

NextInterleave ==
  \/ SendMessage
  \/ AgentResponse
  \/ AgentFailure

SpecInterleave == InitInterleave /\ [][NextInterleave]_vars

\* The agents' turns on their own: a session in which the operator has used the
\* interventions and the artifact edits, and sends a message; the responses carry
\* tool calls.
InitTools ==
  /\ messages = <<>>
  /\ nodeState = INITIAL_NODE_STATE
  /\ agentStatuses = [r \in AgentRole |-> "idle"]
  /\ agentPriorities = [r \in AgentRole |->
                          CASE r = ARCHITECT -> HIGH
                            [] r = ENGINEER -> NORMAL
                            [] r = CRITIC -> LOW
                            [] OTHER -> NORMAL]
  /\ mutedAgents = [r \in AgentRole |-> FALSE]
  /\ unreadAgents = [r \in AgentRole |-> FALSE]
  /\ failedAgents = [r \in AgentRole |-> FALSE]
  /\ isSynthesizing = FALSE
  /\ lastSynthesizedContentRef = INITIAL_NODE_STATE.activeFile
  /\ rounds = [r \in Rounds |-> IdleRound]
  /\ synthCalls = <<>>
  /\ sends = 0 /\ toolCalls = 0 /\ ops = MaxOps
  /\ timer = NoTimer
  /\ checkLog = <<>>
  /\ edits = MaxEdits
  /\ apiKey = SomeKey
  /\ providerCalls = NoCalls

NextTools ==
  \/ SendMessage
  \/ AgentResponse
  \/ AgentFailure

SpecTools == InitTools /\ [][NextTools]_vars

\* ------------------------------------------------------- properties
\* the entries a round has added to its local history after the user entry
RoundReplies(rd) ==
  SubSeq(rd.currentSequenceHistory, Len(rd.messages) + 2, Len(rd.currentSequenceHistory))

RECURSIVE FlattenCalls(_)
FlattenCalls(entries) ==
  IF entries = <<>> THEN <<>> ELSE Head(entries).toolCalls \o FlattenCalls(Tail(entries))

SetsField(call, f) == call.name = UpdateNexusState /\ f \in DOMAIN call.args

\* the last update_nexus_state call among `calls` that supplies f, if any
LastSetting(calls, f) ==
  {n \in DOMAIN calls :
     /\ SetsField(calls[n], f)
     /\ \A m \in (n + 1)..Len(calls) : ~SetsField(calls[m], f)}

\* C1: within a round for target ALL, once an earlier agent's turn has applied an
\* update_nexus_state call that sets scratchpad to X, the state snapshot passed to
\* the completion call of a later agent of the round has scratchpad = X.
C1_LaterAgentObservesScratchpad ==
  \A s \in Rounds :
    LET rd == rounds[s]
        applied == FlattenCalls(RoundReplies(rd))
    IN (rd.pc = "awaiting" /\ rd.target = "ALL") =>
         \A n \in LastSetting(applied, "scratchpad") :
           rd.nodeState.scratchpad = applied[n].args.scratchpad

\* sub picks elements of seq in their order
IsSubsequenceOf(sub, seq) ==
  \E pick \in [DOMAIN sub -> DOMAIN seq] :
     /\ \A i \in DOMAIN sub : sub[i] = seq[pick[i]]
     /\ \A i, j \in DOMAIN sub : i < j => pick[i] < pick[j]

\* the local history is the round-start transcript, the user entry and replies of
\* agents already called, in queue order, with finalized tool calls
HistoryIsRoundChain(rd) ==
  LET replies == RoundReplies(rd) IN
  /\ Len(rd.currentSequenceHistory) >= Len(rd.messages) + 1
  /\ SubSeq(rd.currentSequenceHistory, 1, Len(rd.messages)) = rd.messages
  /\ rd.currentSequenceHistory[Len(rd.messages) + 1].role = USER
  /\ \A i \in DOMAIN replies :
       /\ replies[i].content = <<"reply">>
       /\ \A j \in DOMAIN replies[i].toolCalls : replies[i].toolCalls[j].status # "pending"
  /\ IsSubsequenceOf([i \in DOMAIN replies |-> replies[i].role],
                     SubSeq(rd.executionQueue, 1, rd.idx - 1))

\* a step in which the call in flight of round s returns
TurnStep(s) == rounds[s].pc = "awaiting" /\ rounds'[s] # rounds[s]

\* C2: the k-th call of a round is issued when the (k-1)-th has returned and its
\* tool calls are in the store; the transcript it is given is the transcript at
\* round start, the user entry, and the reply of every earlier agent of the round
\* that succeeded, in queue order.
C2_SequentialTranscript ==
  [][\A s \in Rounds :
       /\ rounds'[s].pc # "idle" => HistoryIsRoundChain(rounds'[s])
       /\ (rounds[s].pc = "idle" /\ rounds'[s].pc # "idle") =>
            /\ rounds'[s].messages = messages
            /\ rounds'[s].idx = 1
            /\ RoundReplies(rounds'[s]) = <<>>
       /\ TurnStep(s) =>
            LET rd == rounds[s]
                role == rd.executionQueue[rd.idx]
                grown == rounds'[s].currentSequenceHistory
            IN /\ rounds'[s].idx = rd.idx + 1
               /\ rounds'[s].executionQueue = rd.executionQueue
               /\ rounds'[s].messages = rd.messages
               /\ agentStatuses'[role] \in {"idle", "error"}
               /\ agentStatuses'[role] = "error" => grown = rd.currentSequenceHistory
               /\ agentStatuses'[role] = "idle" =>
                    /\ Len(grown) = Len(rd.currentSequenceHistory) + 1
                    /\ SubSeq(grown, 1, Len(rd.currentSequenceHistory)) = rd.currentSequenceHistory
                    /\ grown[Len(grown)].role = role
                    /\ \A f \in ArgNames :
                         \A n \in LastSetting(grown[Len(grown)].toolCalls, f) :
                           nodeState'[f] = grown[Len(grown)].toolCalls[n].args[f]
  ]_vars

\* a third call in flight after one earlier agent failed and one replied
C2_Witness ==
  \E s \in Rounds :
    /\ rounds[s].pc = "awaiting"
    /\ rounds[s].idx = 3
    /\ Len(RoundReplies(rounds[s])) = 1
    /\ rounds[s].currentSequenceHistory[Len(rounds[s].currentSequenceHistory)].role
         = rounds[s].executionQueue[2]
    /\ failedAgents[rounds[s].executionQueue[1]]

\* the unmuted broadcast roles of one priority, in registration order
WithPriority(muted, prio, p) ==
  SelectSeq(<<ARCHITECT, ENGINEER, CRITIC>>, LAMBDA r : ~muted[r] /\ prio[r] = p)

ExpectedQueue(muted, prio) ==
  WithPriority(muted, prio, HIGH) \o WithPriority(muted, prio, NORMAL)
    \o WithPriority(muted, prio, LOW)

\* C3: for target ALL the queue is the unmuted agents among Architect, Engineer,
\* Critic, by priority HIGH, NORMAL, LOW, ties in registration order.
C3_QueueOrder ==
  [][\A s \in Rounds :
       (rounds[s].pc = "idle" /\ rounds'[s].pc # "idle" /\ rounds'[s].target = "ALL") =>
         rounds'[s].executionQueue = ExpectedQueue(mutedAgents, agentPriorities)
  ]_vars

\* [High, Low, Normal] runs as [High, Normal, Low]
C3_Witness ==
  \E s \in Rounds :
    /\ rounds[s].pc # "idle"
    /\ rounds[s].target = "ALL"
    /\ agentPriorities[ARCHITECT] = HIGH
    /\ agentPriorities[ENGINEER] = LOW
    /\ agentPriorities[CRITIC] = NORMAL
    /\ rounds[s].executionQueue = <<ARCHITECT, CRITIC, ENGINEER>>


\* the role whose call a turn step of slot s ends, and whether it ended well
TurnRole(s) == rounds[s].executionQueue[rounds[s].idx]
TurnFailed(s) == TurnStep(s) /\ agentStatuses'[TurnRole(s)] = "error"
TurnSucceeded(s) == TurnStep(s) /\ agentStatuses'[TurnRole(s)] = "idle"
\* the finalized tool calls of the reply a successful turn step appends
TurnCalls(s) ==
  rounds'[s].currentSequenceHistory[Len(rounds'[s].currentSequenceHistory)].toolCalls

IsPrefix(a, b) == Len(a) <= Len(b) /\ SubSeq(b, 1, Len(a)) = a
\* `after` is `before` with one entry appended
AppendsOne(before, after) == Len(after) = Len(before) + 1 /\ IsPrefix(before, after)
\* the entry handleSystemError appends for a failure in `context`
IsErrorEntry(entry, context) ==
  /\ entry.role = ARCHITECT
  /\ entry.toolCalls = <<>>
  /\ Len(entry.content) >= 3
  /\ entry.content[1] = "SYSTEM ERROR"
  /\ entry.content[2] = context

\* C4: a failed completion call appends exactly one failure entry, marks the agent
\* failed, and the call of the next queued agent is issued in the same step; so is
\* the next call after a successful turn: no turn's outcome ends the round early.
C4_FailureContained ==
  [][\A s \in Rounds :
       /\ TurnFailed(s) =>
            /\ AppendsOne(messages, messages')
            /\ IsErrorEntry(messages'[Len(messages')], AgentContext(TurnRole(s)))
            /\ failedAgents'[TurnRole(s)]
       /\ (TurnStep(s) /\ rounds[s].idx < Len(rounds[s].executionQueue)) =>
            /\ rounds'[s].pc = "awaiting"
            /\ rounds'[s].idx = rounds[s].idx + 1
            /\ rounds'[s].executionQueue = rounds[s].executionQueue
            /\ agentStatuses'[rounds[s].executionQueue[rounds[s].idx + 1]] = "processing"
       /\ (TurnStep(s) /\ rounds[s].idx = Len(rounds[s].executionQueue)) =>
            rounds'[s].pc = "done"
  ]_vars

\* the failure entry of the first agent is the last entry and the second call is in flight
C4_Witness ==
  \E s \in Rounds :
    /\ rounds[s].pc = "awaiting"
    /\ rounds[s].idx = 2
    /\ failedAgents[rounds[s].executionQueue[1]]
    /\ agentStatuses[rounds[s].executionQueue[1]] = "error"
    /\ agentStatuses[rounds[s].executionQueue[2]] = "processing"
    /\ messages # <<>>
    /\ IsErrorEntry(messages[Len(messages)], AgentContext(rounds[s].executionQueue[1]))

\* C5: the transcript only grows by appending: every step leaves the entries
\* already in it in place, unmodified and in order.
C5_TranscriptAppendOnly == [][IsPrefix(messages, messages')]_vars

\* the field of ContextNodeState a property of update_nexus_state is meant for
StateFieldOf(arg) == IF arg = "activeFileContent" THEN "activeFile" ELSE arg

\* C6: after a turn whose update_nexus_state call supplies v for objective,
\* scratchpad, activeFileName or activeFileContent, the state field objective,
\* scratchpad, activeFileName or activeFile equals v.
C6_SuppliedFieldsStored ==
  [][\A s \in Rounds :
       TurnSucceeded(s) =>
         \A a \in ArgNames :
           \A n \in LastSetting(TurnCalls(s), a) :
             /\ StateFieldOf(a) \in DOMAIN nodeState'
             /\ nodeState'[StateFieldOf(a)] = TurnCalls(s)[n].args[a]
  ]_vars

\* C7: a turn's merge leaves every field of the store that no update_nexus_state
\* call of the turn names at the value the store held just before the merge.
C7_OmittedFieldsUntouched ==
  [][\A s \in Rounds :
       TurnSucceeded(s) =>
         \A k \in DOMAIN nodeState :
           LastSetting(TurnCalls(s), k) = {} =>
             /\ k \in DOMAIN nodeState'
             /\ nodeState'[k] = nodeState[k]
  ]_vars

\* a turn has merged an update while the store holds, in the file name the update
\* does not supply, a value the operator typed after the round's snapshot was taken
C7_Witness ==
  \E s \in Rounds, k \in {"activeFileName"} :
    LET applied == FlattenCalls(RoundReplies(rounds[s])) IN
    /\ rounds[s].pc # "idle"
    /\ \E n \in DOMAIN applied : applied[n].name = UpdateNexusState /\ DOMAIN applied[n].args # {}
    /\ LastSetting(applied, k) = {}
    /\ nodeState[k] # rounds[s].nodeState[k]

\* C8: the shared context record has exactly the four fields of ContextNodeState
\* and each holds a text, never undefined.
C8_FourTextFields ==
  /\ DOMAIN nodeState = StateFields
  /\ \A k \in DOMAIN nodeState : nodeState[k] # Undefined

\* some call of the turn names a tool the application does not know
HasUnknownCall(calls) ==
  \E j \in DOMAIN calls : calls[j].name \notin {UpdateNexusState, GetActiveFile}

\* C9: a tool call with a name the application does not know is finalized as a
\* failure with outcome 'Unknown Tool'; the turn still succeeds, its arguments reach
\* no field of the store, the update calls beside it are merged, the reply entry is
\* appended and the round goes on.
C9_UnknownToolContained ==
  [][\A s \in Rounds :
       (TurnSucceeded(s) /\ HasUnknownCall(TurnCalls(s))) =>
         LET calls == TurnCalls(s) IN
         /\ \A j \in DOMAIN calls :
              calls[j].name \notin {UpdateNexusState, GetActiveFile} =>
                calls[j].status = "failure" /\ calls[j].outcome = <<"Unknown Tool">>
         /\ DOMAIN nodeState' =
              DOMAIN nodeState \cup {k \in ArgNames : LastSetting(calls, k) # {}}
         /\ \A k \in DOMAIN nodeState' :
              IF LastSetting(calls, k) # {}
              THEN \A n \in LastSetting(calls, k) : nodeState'[k] = calls[n].args[k]
              ELSE nodeState'[k] = nodeState[k]
         /\ messages'[Len(messages')] = AgentEntry(TurnRole(s), calls)
         /\ rounds[s].idx < Len(rounds[s].executionQueue) => rounds'[s].pc = "awaiting"
  ]_vars

\* the last reply carries an unknown call beside an update that reached the store,
\* and the next agent's call is in flight
C9_Witness ==
  \E s \in Rounds :
    LET h == rounds[s].currentSequenceHistory
        calls == h[Len(h)].toolCalls
    IN /\ rounds[s].pc = "awaiting"
       /\ rounds[s].idx >= 2
       /\ Len(calls) = 2
       /\ calls[1].name = OtherTool /\ calls[1].status = "failure"
       /\ calls[2].name = UpdateNexusState /\ "objective" \in DOMAIN calls[2].args
       /\ nodeState.objective = calls[2].args.objective
       /\ nodeState.scratchpad = EmptyText

\* C10: the update_nexus_state calls of one turn reach the store in one step, a
\* later call overriding an earlier one field by field; the snapshot a completion
\* call is given is the store as it was at one moment, taken when its round started.
C10_TurnMergeAtomic ==
  [][/\ \A s \in Rounds :
          TurnSucceeded(s) =>
            \A k \in DOMAIN nodeState' :
              IF LastSetting(TurnCalls(s), k) # {}
              THEN \A n \in LastSetting(TurnCalls(s), k) :
                     nodeState'[k] = TurnCalls(s)[n].args[k]
              ELSE k \in DOMAIN nodeState /\ nodeState'[k] = nodeState[k]
     /\ \A s \in Rounds :
          rounds'[s].pc = "awaiting" =>
            IF rounds[s].pc = "idle"
            THEN rounds'[s].nodeState = nodeState /\ nodeState' = nodeState
            ELSE rounds'[s].nodeState = rounds[s].nodeState
  ]_vars

\* one turn set scratchpad twice; the store holds the later value
C10_Witness ==
  \E s \in Rounds :
    LET h == rounds[s].currentSequenceHistory
        calls == h[Len(h)].toolCalls
    IN /\ rounds[s].pc = "awaiting"
       /\ rounds[s].idx >= 2
       /\ Len(calls) = 2
       /\ SetsField(calls[1], "scratchpad") /\ SetsField(calls[2], "scratchpad")
       /\ calls[1].args.scratchpad # calls[2].args.scratchpad
       /\ nodeState.scratchpad = calls[2].args.scratchpad

\* some call of the turn is the read of the artifact
HasReadCall(calls) == \E j \in DOMAIN calls : calls[j].name = GetActiveFile

\* the characters of a text: those of its lines and the newlines between them
RECURSIVE CharCount(_)
CharCount(t) ==
  IF Len(t) = 1 THEN Len(t[1]) ELSE CharCount(SubSeq(t, 1, Len(t) - 1)) + 1 + Len(t[Len(t)])

ArtifactChanges == nodeState'.activeFile # nodeState.activeFile
CheckRuns == checkLog' # checkLog
LastCheck(log) == log[Len(log)]

C13_BaselineAfterAttempt ==
  [][\A i \in DOMAIN synthCalls :
       (synthCalls' = RemoveAt(synthCalls, i) /\ synthCalls[i].triggerSource = "AUTO") =>
         lastSynthesizedContentRef' = synthCalls[i].nodeState.activeFile
  ]_vars

\* the length of the common prefix of two sequences
CommonPrefixLen(a, b) ==
  CHOOSE k \in 0..(IF Len(a) <= Len(b) THEN Len(a) ELSE Len(b)) :
    /\ \A i \in 1..k : a[i] = b[i]
    /\ k < Len(a) /\ k < Len(b) => a[k + 1] # b[k + 1]

\* the length of a longest common subsequence, by its defining recurrence
RECURSIVE SubsequenceLength(_, _)
SubsequenceLength(a, b) ==
  IF a = <<>> \/ b = <<>> THEN 0
  ELSE IF Head(a) = Head(b) THEN 1 + SubsequenceLength(Tail(a), Tail(b))
  ELSE Max(SubsequenceLength(Tail(a), b), SubsequenceLength(a, Tail(b)))

\* a common prefix belongs to a longest common subsequence
LongestCommonSubsequence(a, b) ==
  LET k == CommonPrefixLen(a, b)
  IN k + SubsequenceLength(SubSeq(a, k + 1, Len(a)), SubSeq(b, k + 1, Len(b)))

\* the line edit distance: lines to delete from b and lines to insert to make it a
EditDistance(a, b) ==
  (Len(a) - LongestCommonSubsequence(a, b)) + (Len(b) - LongestCommonSubsequence(a, b))

\* the call handleSynthesize('AUTO') of the timeout that fires
AutoCall == [triggerSource |-> "AUTO", messages |-> timer.messages, nodeState |-> timer.nodeState]

TimeoutRuns == timer.pending /\ ~timer'.pending

\* C15: when the timeout fires on an artifact equal to the baseline, the detector
\* answers false, whatever the size of the two equal texts, and no synthesis call
\* is started.
C15_EqualIsNotSignificant ==
  [][(TimeoutRuns /\ timer.nodeState.activeFile = lastSynthesizedContentRef) =>
       /\ synthCalls' = synthCalls
       /\ isSynthesizing' = isSynthesizing
       /\ CheckRuns => ~LastCheck(checkLog').verdict
  ]_vars

\* a check of two equal texts above the ceiling answered false and started nothing
C15_Witness ==
  /\ checkLog # <<>>
  /\ LastCheck(checkLog).current = LastCheck(checkLog).previous
  /\ Len(LastCheck(checkLog).current) > 600
  /\ ~LastCheck(checkLog).verdict
  /\ synthCalls = <<>>

IsLarge(check) == Len(check.current) > 600 \/ Len(check.previous) > 600
LineCountDifference(check) == Abs(Len(check.current) - Len(check.previous))

\* C17 as stated: on the large-input path the detector answers true exactly when
\* the line counts differ by at least 5 or at least 5 lines of the current
\* snapshot occur nowhere in the previous one.
C17_HeuristicWithScan ==
  \A n \in DOMAIN checkLog :
    IsLarge(checkLog[n]) =>
      checkLog[n].verdict =
        (\/ LineCountDifference(checkLog[n]) >= 5
         \/ UnseenLines(checkLog[n].current, checkLog[n].previous) >= 5)

\* C17 amended: on the large-input path the detector answers true exactly when
\* the line counts differ by at least 5; it does not look at the lines.
C17_LineCountHeuristic ==
  \A n \in DOMAIN checkLog :
    IsLarge(checkLog[n]) => checkLog[n].verdict = (LineCountDifference(checkLog[n]) >= 5)

\* five lines of a large snapshot occur nowhere in the previous one, the line
\* counts are equal, and the detector answered false
C17_Witness ==
  \E n \in DOMAIN checkLog :
    /\ IsLarge(checkLog[n])
    /\ UnseenLines(checkLog[n].current, checkLog[n].previous) >= 5
    /\ LineCountDifference(checkLog[n]) < 5
    /\ ~checkLog[n].verdict

\* C18: the LCS is computed only for two snapshots of at most 600 lines each; two
\* different snapshots of which one has more than 600 lines get the verdict of the
\* line-count heuristic, two of at most 600 lines, 600 included, that of the edit
\* distance.
C18_CeilingSelectsPath ==
  \A n \in DOMAIN checkLog :
    LET check == checkLog[n] IN
    /\ check.path = "exact" => ~IsLarge(check)
    /\ (IsLarge(check) /\ check.current # check.previous) =>
         /\ check.path = "heuristic"
         /\ check.verdict = (LineCountDifference(check) >= 5)
    /\ (~IsLarge(check) /\ check.current # check.previous) =>
         /\ check.path = "exact"
         /\ check.verdict = (EditDistance(check.current, check.previous) >= 5)

\* two snapshots of exactly 600 lines took the exact path: found significant,
\* which the line counts alone would not have said
C18_Witness ==
  \E n \in DOMAIN checkLog :
    /\ Len(checkLog[n].current) = 600
    /\ Len(checkLog[n].previous) = 600
    /\ checkLog[n].path = "exact"
    /\ checkLog[n].verdict
    /\ LineCountDifference(checkLog[n]) < 5

\* C19: on the exact path the edit count the code computes is the same with its
\* two arguments exchanged, and so is the verdict.
C19_EditsSymmetric ==
  \A n \in DOMAIN checkLog :
    LET check == checkLog[n] IN
    check.path = "exact" =>
      /\ LineEdits(check.current, check.previous) = LineEdits(check.previous, check.current)
      /\ check.verdict = isSignificantChange(check.previous, check.current)

\* a shorter snapshot checked against a longer baseline and found significant
C19_Witness ==
  \E n \in DOMAIN checkLog :
    /\ checkLog[n].path = "exact"
    /\ Len(checkLog[n].current) < Len(checkLog[n].previous)
    /\ checkLog[n].verdict

\* current is previous with the lines of `added` after it
IsAppended(current, previous, added) == current = previous \o added
\* n lines, all different, none of them a line of previous
AreNewLines(added, previous, n) ==
  /\ Len(added) = n
  /\ \A i, j \in DOMAIN added : i # j => added[i] # added[j]
  /\ \A i \in DOMAIN added : \A j \in DOMAIN previous : added[i] # previous[j]
AddedLines(current, previous) == SubSeq(current, Len(previous) + 1, Len(current))

PassStarts == Len(synthCalls') > Len(synthCalls)
PassEnds == Len(synthCalls') < Len(synthCalls)

ArtifactFields == {"activeFile", "activeFileName"}

\* C21: a reconciliation pass, manual or automatic, successful or failed, never
\* changes the artifact name or the artifact content of the shared state; the
\* only fields its merge can write are objective and scratchpad.
C21_PassLeavesArtifact ==
  [][(PassStarts \/ PassEnds) =>
       /\ DOMAIN nodeState' = DOMAIN nodeState
       /\ \A f \in ArtifactFields : nodeState'[f] = nodeState[f]
  ]_vars

\* an automatic pass over a four-line artifact has merged an objective and a
\* scratchpad and taken the artifact for the new baseline
C21_Witness ==
  /\ synthCalls = <<>>
  /\ nodeState.activeFile = FourLines
  /\ lastSynthesizedContentRef = FourLines
  /\ nodeState.objective = TextX
  /\ nodeState.scratchpad = TextX
  /\ checkLog # <<>>

\* a step in which the i-th suspended pass returns with `updates`
PassReturns(i, updates) == i \in DOMAIN synthCalls /\ SynthesisResponds(i, updates)

\* C22: a pass overwrites objective (scratchpad) only when the returned value
\* differs from the value currently in the store; when the returned objective and
\* scratchpad both equal the current ones the pass changes nothing in the store
\* and, if it was triggered automatically, appends no transcript entry.
C22_MergeOnlyDifferences ==
  [][\A i \in DOMAIN synthCalls, updates \in SynthUpdates :
       (/\ PassReturns(i, updates)
        /\ updates.objective = nodeState.objective
        /\ updates.scratchpad = nodeState.scratchpad) =>
          /\ nodeState' = nodeState
          /\ synthCalls[i].triggerSource = "AUTO" => messages' = messages
  ]_vars

\* the entry a pass appends when it announces its result
IsSummaryEntry(entry) ==
  /\ entry.role = ARCHITECT
  /\ entry.toolCalls = <<>>
  /\ entry.content[1] = "NEXUS SYNTHESIS COMPLETE"

\* the summary of a pass that changed neither field
BareSummary == SynthesisEntry(FALSE, Undefined, FALSE)

\* C23: a manually triggered pass that returns appends a summary entry to the
\* transcript, whether or not objective or scratchpad changed.
C23_ManualPassAnnounced ==
  [][\A i \in DOMAIN synthCalls, updates \in SynthUpdates :
       (PassReturns(i, updates) /\ synthCalls[i].triggerSource = "MANUAL") =>
          /\ AppendsOne(messages, messages')
          /\ IsSummaryEntry(messages'[Len(messages')])
  ]_vars

\* a manual pass has returned the values the store held and left its bare summary
C23_Witness ==
  /\ ops = MaxOps
  /\ synthCalls = <<>>
  /\ checkLog = <<>>
  /\ nodeState.objective = EmptyText
  /\ nodeState.scratchpad = EmptyText
  /\ messages # <<>>
  /\ messages[Len(messages)] = BareSummary

\* a step in which the i-th suspended pass fails
PassFails(i) ==
  i \in DOMAIN synthCalls /\ \E outcome \in SynthesisOutcomes : SynthesisFails(i, outcome)

\* C24: a reconciliation call that fails performs no merge: the four fields of
\* the shared state are as they were, the failure is one visible transcript
\* entry, and the session accepts rounds and passes afterwards: the sync control
\* is enabled and no agent was set processing.
C24_FailedPassContained ==
  [][\A i \in DOMAIN synthCalls :
       PassFails(i) =>
         /\ nodeState' = nodeState
         /\ AppendsOne(messages, messages')
         /\ IsErrorEntry(messages'[Len(messages')], SynthesisContext)
         /\ ~isSynthesizing'
         /\ UNCHANGED <<agentStatuses, failedAgents, rounds, lastSynthesizedContentRef>>
  ]_vars

\* an automatic pass over a four-line artifact has failed: its error entry is
\* the last entry, and the objective the operator set is in place
C24_Witness ==
  /\ synthCalls = <<>>
  /\ ~isSynthesizing
  /\ checkLog # <<>>
  /\ nodeState.activeFile = FourLines
  /\ nodeState.objective = TextX
  /\ lastSynthesizedContentRef = EmptyText
  /\ messages # <<>>
  /\ IsErrorEntry(messages[Len(messages)], SynthesisContext)

\* ------------------------------------------------------- completion gateway
\* the classification an error entry shows
ErrorTypeOf(entry) == entry.content[3]
\* the remediation hint an error entry shows
SuggestionOf(entry) == entry.content[Len(entry.content)]

\* a step in which the turn of round s fails, its provider call having ended in
\* `outcome`
TurnFailsWith(s, outcome) == rounds[s].pc = "awaiting" /\ AgentFails(s, outcome)

\* C25: a provider response that is successful but empty (no candidate for an
\* agent turn, no text for a reconciliation call) makes the call fail, and the
\* failure is classified UNKNOWN.
C25_EmptyResponseIsUnknown ==
  [][/\ \A s \in Rounds :
          TurnFailsWith(s, NoCandidate) => ErrorTypeOf(messages'[Len(messages')]) = "UNKNOWN"
     /\ \A i \in DOMAIN synthCalls :
          PassReturns(i, synthesizeResult(NoText)) =>
            /\ AppendsOne(messages, messages')
            /\ IsErrorEntry(messages'[Len(messages')], SynthesisContext)
            /\ ErrorTypeOf(messages'[Len(messages')]) = "UNKNOWN"
  ]_vars

\* the failures the transcript shows
ErrorEntries ==
  {k \in DOMAIN messages :
     messages[k].role = ARCHITECT /\ messages[k].content[1] = "SYSTEM ERROR"}

\* C26: every failure raised by the gateway carries exactly one of the
\* classifications AUTH, RATE_LIMIT, SERVER, INVALID_REQUEST, UNKNOWN, and any two
\* failures with the same classification carry the same remediation hint.
C26_OneHintPerClass ==
  /\ \A k \in ErrorEntries : ErrorTypeOf(messages[k]) \in ErrorTypes
  /\ \A j, k \in ErrorEntries :
       ErrorTypeOf(messages[j]) = ErrorTypeOf(messages[k]) =>
         SuggestionOf(messages[j]) = SuggestionOf(messages[k])

\* the last entry of the transcript after the step is the AUTH failure of `context`
AppendsAuthFailure(context) ==
  /\ AppendsOne(messages, messages')
  /\ IsErrorEntry(messages'[Len(messages')], context)
  /\ ErrorTypeOf(messages'[Len(messages')]) = "AUTH"

\* C27: with no credential configured, every agent turn and every
\* reconciliation pass ends in an AUTH failure, and no provider call is issued.
C27_MissingKeyFailsFast ==
  [][apiKey = NoKey =>
       /\ providerCalls = NoCalls /\ providerCalls' = NoCalls
       /\ \A s \in Rounds :
            TurnStep(s) => TurnFailed(s) /\ AppendsAuthFailure(AgentContext(TurnRole(s)))
       /\ PassEnds => nodeState' = nodeState /\ AppendsAuthFailure(SynthesisContext)
  ]_vars

\* without a key, a round of three agents has ended in three failures and a
\* manual pass has failed
C27_Witness ==
  /\ apiKey = NoKey
  /\ \E s \in Rounds :
       /\ rounds[s].pc = "done"
       /\ Len(rounds[s].executionQueue) = 3
       /\ \A k \in 1..3 : failedAgents[rounds[s].executionQueue[k]]
  /\ ops = MaxOps
  /\ synthCalls = <<>>
  /\ Cardinality(ErrorEntries) = 4
  /\ \A k \in ErrorEntries : ErrorTypeOf(messages[k]) = "AUTH"

\* the rounds of which a turn starts in the step, and the passes that start
StartedTurns ==
  {s \in Rounds :
     /\ rounds'[s].pc = "awaiting"
     /\ rounds[s].pc # "awaiting" \/ rounds'[s].idx # rounds[s].idx}
StartedPasses == IF PassStarts THEN 1 ELSE 0

\* the provider calls in flight for round s
PendingFor(log, s) == SelectSeq(log.pending, LAMBDA c : c.caller = s /\ c.fn = "generateAgentResponse")
PendingPasses(log) == SelectSeq(log.pending, LAMBDA c : c.fn = "synthesizeNexusState")

\* C28: each agent turn and each reconciliation pass issues at most one provider
\* call: a provider call is made only in a step that starts a turn or a pass, one
\* for each; after a failure of any class the turn's call is gone, the round moves
\* to the next agent of the queue, and the failed agent is not in the rest of it.
C28_NoRetry ==
  [][/\ providerCalls'.issued - providerCalls.issued =
          IF apiKey = NoKey THEN 0 ELSE Cardinality(StartedTurns) + StartedPasses
     /\ \A s \in Rounds : Len(PendingFor(providerCalls', s)) <= 1
     /\ Len(PendingPasses(providerCalls')) <= Len(synthCalls')
     /\ \A s \in Rounds :
          TurnFailed(s) =>
            /\ \A k \in DOMAIN PendingFor(providerCalls', s) :
                 PendingFor(providerCalls', s)[k].role = rounds[s].executionQueue[rounds[s].idx + 1]
            /\ rounds'[s].idx = rounds[s].idx + 1
            /\ \A k \in (rounds[s].idx + 1)..Len(rounds[s].executionQueue) :
                 rounds[s].executionQueue[k] # TurnRole(s)
     /\ PassEnds => Len(PendingPasses(providerCalls')) = Len(PendingPasses(providerCalls)) - 1
                       \/ apiKey = NoKey
  ]_vars

\* the first agent of a round failed on a rate limit, the second on a server
\* error; three calls were made, and the one in flight is the third agent's
C28_Witness ==
  \E s \in Rounds :
    /\ rounds[s].pc = "awaiting"
    /\ rounds[s].idx = 3
    /\ providerCalls.issued = 3
    /\ Len(providerCalls.pending) = 1
    /\ providerCalls.pending[1].role = rounds[s].executionQueue[3]
    /\ \E j, k \in ErrorEntries :
         /\ j < k
         /\ ErrorTypeOf(messages[j]) = "RATE_LIMIT"
         /\ ErrorTypeOf(messages[k]) = "SERVER"

\* C29: if the provider never answers a completion call, the gateway surfaces a
\* failure after a bounded wait, so an agent that is processing eventually
\* leaves that status and the round that called it terminates.
C29_BoundedWait ==
  /\ \A r \in BroadcastSet :
       (agentStatuses[r] = "processing") ~> (agentStatuses[r] # "processing")
  /\ \A s \in Rounds : (rounds[s].pc = "awaiting") ~> (rounds[s].pc = "done")

Min(a, b) == IF a <= b THEN a ELSE b

\* `contents` is made of the most recent min(window, n) entries of the n-entry
\* history, in transcript order, each turned into a part by `part`
IsRecentWindow(contents, history, window, part(_)) ==
  LET n == Len(history)
      m == Min(window, n)
  IN /\ Len(contents) = m
     /\ \A k \in 1..m : contents[k] = part(history[n - m + k])

\* C30: an agent turn is sent exactly the most recent min(15, n) entries of the
\* n-entry transcript it is given, in transcript order, and a reconciliation pass
\* exactly the most recent min(30, n); the reconciliation window is the larger.
C30_TranscriptWindows ==
  /\ \A s \in Rounds :
       (rounds[s].pc = "awaiting" /\ apiKey # NoKey) =>
          /\ Len(PendingFor(providerCalls, s)) = 1
          /\ IsRecentWindow(PendingFor(providerCalls, s)[1].contents,
                            rounds[s].currentSequenceHistory, 15, TurnPart)
  /\ apiKey # NoKey =>
       /\ Len(PendingPasses(providerCalls)) = Len(synthCalls)
       /\ \A i \in DOMAIN synthCalls :
            IsRecentWindow(PendingPasses(providerCalls)[i].contents,
                           synthCalls[i].messages, 30, LogLine)
  /\ SynthesisWindow > TurnWindow

\* a turn and a pass are in flight, each given a transcript of 31 entries: the
\* turn was sent 15 of them, the pass 30
C30_Witness ==
  \E s \in Rounds :
    /\ rounds[s].pc = "awaiting"
    /\ Len(rounds[s].currentSequenceHistory) = 31
    /\ Len(synthCalls) = 1
    /\ Len(synthCalls[1].messages) = 31
    /\ Len(PendingFor(providerCalls, s)) = 1
    /\ Len(PendingFor(providerCalls, s)[1].contents) = 15
    /\ Len(PendingPasses(providerCalls)) = 1
    /\ Len(PendingPasses(providerCalls)[1].contents) = 30

\* the tool calls a response carries when the turn step of slot s is its return
ReturnedCalls(s) == [1..(toolCalls' - toolCalls) -> ToolCallInputs]

\* C31: every tool call an agent turn returns is in the entry appended for that
\* agent, in the order returned, finalized as success or failure with an outcome
\* description; no entry of the transcript holds a tool call still pending.
C31_ToolCallsFinalized ==
  [][/\ \A s \in Rounds :
          TurnSucceeded(s) =>
            \A calls \in ReturnedCalls(s) :
              AgentResponds(s, calls) =>
                LET entry == messages'[Len(messages')] IN
                /\ entry.role = TurnRole(s)
                /\ Len(entry.toolCalls) = Len(calls)
                /\ \A j \in DOMAIN calls :
                     /\ entry.toolCalls[j].name = calls[j].name
                     /\ entry.toolCalls[j].args = calls[j].args
                     /\ entry.toolCalls[j].status \in {"success", "failure"}
                     /\ entry.toolCalls[j].outcome # Undefined
     /\ \A n \in DOMAIN messages' :
          \A j \in DOMAIN messages'[n].toolCalls :
            messages'[n].toolCalls[j].status # "pending"
  ]_vars

\* the last entry holds the two calls of its turn in the order returned: a call of
\* an undeclared tool, finalized as a failure, then a read, finalized as a success
C31_Witness ==
  /\ messages # <<>>
  /\ LET calls == messages[Len(messages)].toolCalls IN
     /\ Len(calls) = 2
     /\ calls[1].name = OtherTool /\ calls[1].status = "failure"
     /\ calls[1].outcome = <<"Unknown Tool">>
     /\ calls[2].name = GetActiveFile /\ calls[2].status = "success"

\* the computation agrees with the defining recurrence on every pair of sequences
\* of at most MaxLines lines, the empty sequence included
LCSOnAllSequences ==
  \A a \in LineSeqs(0, MaxLines), b \in LineSeqs(0, MaxLines) :
    calculateLCSLength(a, b) = SubsequenceLength(a, b)

\* C32: calculateLCSLength(a, b), with its two rows exchanged after each row and
\* never zeroed again, is the length of the longest common subsequence of the line
\* sequences a and b, empty sequences and sequences with repeated lines included.
C32_LCSLength ==
  /\ \A n \in DOMAIN checkLog :
       checkLog[n].path = "exact" =>
         calculateLCSLength(checkLog[n].current, checkLog[n].previous)
           = SubsequenceLength(checkLog[n].current, checkLog[n].previous)
  /\ LCSOnAllSequences

\* the detector ran on a,b,a against b,a,b, each line repeated on one side: the
\* computation gives 2
C32_Witness ==
  \E n \in DOMAIN checkLog :
    /\ checkLog[n].path = "exact"
    /\ checkLog[n].current = <<"a", "b", "a">>
    /\ checkLog[n].previous = <<"b", "a", "b">>
    /\ calculateLCSLength(checkLog[n].current, checkLog[n].previous) = 2

\* a step in which round s issues a call: its first, or the next of its queue
CallIssued(s) ==
  /\ rounds'[s].pc = "awaiting"
  /\ rounds[s].pc = "idle" \/ TurnStep(s)
\* the agent round s waits for
Awaited(rd) == rd.executionQueue[rd.idx]
\* a turn step of round s that appended a reply to the round's history, or none
ReplyAppended(s) ==
  TurnStep(s) /\ Len(rounds'[s].currentSequenceHistory) > Len(rounds[s].currentSequenceHistory)
NoReplyAppended(s) ==
  TurnStep(s) /\ rounds'[s].currentSequenceHistory = rounds[s].currentSequenceHistory
\* a step in which round s returns
RoundFinishes(s) == rounds[s].pc # "done" /\ rounds'[s].pc = "done"

\* C33: an agent is processing from the start of its turn, idle once the turn has
\* succeeded and its tool calls are merged, in error with its failed flag set once
\* the turn has failed; the flag is cleared when its next turn starts; when a round
\* has finished no agent of its queue is left processing.
C33_StatusLifecycle ==
  [][\A s \in Rounds :
       /\ CallIssued(s) =>
            /\ agentStatuses'[Awaited(rounds'[s])] = "processing"
            /\ ~failedAgents'[Awaited(rounds'[s])]
       /\ ReplyAppended(s) =>
            /\ agentStatuses'[TurnRole(s)] = "idle"
            /\ nodeState' = MergeToolUpdates(nodeState, rounds[s].nodeState, TurnCalls(s))
       /\ NoReplyAppended(s) =>
            /\ agentStatuses'[TurnRole(s)] = "error"
            /\ failedAgents'[TurnRole(s)]
       /\ RoundFinishes(s) =>
            \A k \in DOMAIN rounds'[s].executionQueue :
              agentStatuses'[rounds'[s].executionQueue[k]] # "processing"
  ]_vars

\* a step that changes objective or scratchpad in the store
ContextChanges ==
  \/ nodeState'.objective # nodeState.objective
  \/ nodeState'.scratchpad # nodeState.scratchpad

\* C34: an automatically triggered pass that returns appends a summary entry to
\* the transcript exactly when it changed objective or scratchpad.
C34_AutoPassAnnouncedIffChanged ==
  [][\A i \in DOMAIN synthCalls, updates \in SynthUpdates :
       (PassReturns(i, updates) /\ synthCalls[i].triggerSource = "AUTO") =>
          IF ContextChanges
          THEN AppendsOne(messages, messages') /\ IsSummaryEntry(messages'[Len(messages')])
          ELSE messages' = messages
  ]_vars

\* the pass a step has started
StartedPass == synthCalls'[Len(synthCalls')]

\* C35: a reconciliation call is given the transcript and the shared state the
\* store holds when the call is issued, for an automatic pass when the timeout
\* fires; and whether a returned field differs is decided against the value the
\* store holds when the pass merges.
C35_PassReadsStore ==
  [][/\ PassStarts =>
          /\ StartedPass.messages = messages
          /\ StartedPass.nodeState = nodeState
     /\ \A i \in DOMAIN synthCalls, updates \in SynthUpdates :
          (PassReturns(i, updates) /\ synthCalls[i].triggerSource = "AUTO") =>
             LET objectiveDiffers ==
                   Truthy(updates.objective) /\ updates.objective # nodeState.objective
                 scratchpadDiffers ==
                   Truthy(updates.scratchpad) /\ updates.scratchpad # nodeState.scratchpad
             IN /\ (objectiveDiffers \/ scratchpadDiffers) <=>
                     lastSynthesizedContentRef' = synthCalls[i].nodeState.activeFile
                /\ ~(objectiveDiffers \/ scratchpadDiffers) => nodeState' = nodeState
  ]_vars

\* the isProcessing property of the chat interface
IsProcessing == \E r \in AgentRole : agentStatuses[r] = "processing"
\* the invocations of handleSendMessage suspended at an await
RoundsInFlight(rs) == {s \in Rounds : rs[s].pc = "awaiting"}

\* C36: handleSendMessage is not invoked while an agent is processing, so no round
\* starts while another is in flight and no two rounds are in flight together.
C36_OneRoundAtATime ==
  [][/\ \A s \in Rounds :
          (rounds[s].pc = "idle" /\ rounds'[s].pc # "idle") =>
             ~IsProcessing /\ RoundsInFlight(rounds) = {}
     /\ Cardinality(RoundsInFlight(rounds')) <= 1
  ]_vars

\* C37: at most one reconciliation call is in flight: neither the timeout nor the
\* sync control starts a pass while isSynthesizing is true, and isSynthesizing is
\* true exactly while a reconciliation call is in flight.
C37_OnePassAtATime ==
  [][/\ PassStarts => ~isSynthesizing
     /\ Len(PendingPasses(providerCalls')) <= 1
     /\ isSynthesizing' <=> PendingPasses(providerCalls') # <<>>
  ]_vars

\* a step in which round s starts
RoundStarts(s) == rounds[s].pc = "idle" /\ rounds'[s].pc # "idle"
\* the roles of a queue
QueueRoles(rd) == {rd.executionQueue[k] : k \in DOMAIN rd.executionQueue}

\* C38: no completion call is issued for an agent muted when the round starts,
\* whether the round targets all agents or names that agent: the queue of a round
\* holds no agent muted at its start, and every call of the round is for an agent
\* of its queue.
C38_MutedNeverCalled ==
  [][\A s \in Rounds :
       /\ RoundStarts(s) => \A r \in QueueRoles(rounds'[s]) : ~mutedAgents[r]
       /\ CallIssued(s) =>
            \A n \in DOMAIN PendingFor(providerCalls', s) :
              PendingFor(providerCalls', s)[n].role \in QueueRoles(rounds[s]) \cup
                {r \in QueueRoles(rounds'[s]) : RoundStarts(s)}
  ]_vars

\* the timeout callback runs on an artifact that is empty in the store
FiresOnEmptyArtifact == TimeoutRuns /\ nodeState.activeFile = EmptyText

\* C39: when the artifact is empty as the timeout fires, no significance check is
\* made, no automatic pass is started and the baseline stays, whatever the
\* baseline is.
C39_EmptyArtifactIgnored ==
  [][FiresOnEmptyArtifact =>
       /\ checkLog' = checkLog
       /\ synthCalls' = synthCalls
       /\ providerCalls' = providerCalls
       /\ isSynthesizing' = isSynthesizing
       /\ lastSynthesizedContentRef' = lastSynthesizedContentRef
  ]_vars

\* the operator has deleted the whole of a four-line artifact that was the
\* baseline; the timeout has fired and nothing was checked or started
C39_Witness ==
  /\ nodeState.activeFile = EmptyText
  /\ lastSynthesizedContentRef = FourLines
  /\ ~timer.pending
  /\ synthCalls = <<>>
  /\ checkLog # <<>>
  /\ LastCheck(checkLog).current = FourLines

=============================================================================
